---- MODULE Spec2Model ----
(***************************************************************************)
(* A model of the aero-slider state/position engine: the slider instance   *)
(* created by createSlider (index <-> scroll translation, loop clones and  *)
(* teleport, drag release, lifecycle) and the thumbnail synchronisation    *)
(* of syncThumbnails.                                                      *)
(*                                                                         *)
(* Scroll positions are whole pixels in the direction-normalised           *)
(* coordinate getScrollPos() returns.  slidesPerView is kept doubled       *)
(* (slidesPerView2 = 2 * slidesPerView) so that x.5 views are integers.    *)
(* The host lays slides out with outer size host.w (slide + gap); host.w   *)
(* is a multiple of 4 so that the centring offset of a x.5 view is a whole *)
(* pixel.  A CSS change of --slides-per-view is read by the update() or    *)
(* refresh() call that follows it.                                         *)
(***************************************************************************)
EXTENDS Integers, Sequences, FiniteSets, TLC

VARIABLES
  host,                 \* the container: the layout it renders ([w, gap] in px),
                        \* whether it holds a track, whether its slides carry
                        \* index attributes, whether an instance is attached
  slideCount,           \* slides.length
  config,               \* SliderConfigFull: loop, slidesPerView2, perMove, draggable
  state,                \* SliderState
  cloneSets,            \* loop controller: clone sets on each side
  clones,               \* the clones in the track, before and after the slides
  teleportTimer,        \* loop controller: teleport timeout pending
  scrollEndTimer,       \* scroll-settle timeout pending
  dragListeners,        \* drag controller: listenersActive
  keyboardListeners,    \* keyboard controller: keydown listener registered
  scrollPos,            \* the track's scroll position
  drag,                 \* the drag session in progress
  last,                 \* the last handler that ran: its input and what it commanded
  thumb,                \* syncThumbnails closure state
  clock                 \* what the host keeps beside the instance.  SpecSync:
                        \* ms for which the primary has held the pending click
                        \* target, or -1; SpecDebounce: ms since the last
                        \* slideChange; SpecTimed: the queue of teleport
                        \* timeouts; SpecSnap: the track's inline
                        \* scroll-snap-type; -1 elsewhere

vars == <<host, slideCount, config, state, cloneSets, clones, teleportTimer,
          scrollEndTimer, dragListeners, keyboardListeners, scrollPos,
          drag, last, thumb, clock>>

---------------------------------------------------------------------------
(* Bounds of the model *)

MaxSlides == 3

\* calls of destroy() the call stack takes before it overflows
MaxStack == 3

(* Program constants *)

MIN_CLONE_SETS == 3
CLONE_BUFFER == 2
TELEPORT_TOLERANCE == 2
TELEPORT_DELAY_MS == 50
THUMB_UPDATE_DEBOUNCE_MS == 50
THUMB_ARRIVAL_STABLE_MS == 200

---------------------------------------------------------------------------
(* Arithmetic as JavaScript computes it *)

Max(a, b) == IF a >= b THEN a ELSE b

Min(a, b) == IF a <= b THEN a ELSE b

Abs(a) == IF a < 0 THEN -a ELSE a

\* a % n of JavaScript: the remainder takes the sign of the dividend
JsRem(a, n) == IF a >= 0 THEN a % n ELSE -((-a) % n)

\* Math.round(a / b) for b > 0: halves round towards +Infinity
JsRound(a, b) == (2 * a + b) \div (2 * b)

\* Math.ceil(a / b) for b > 0
CeilDiv(a, b) == -((-a) \div b)

---------------------------------------------------------------------------
(* The instance as one value, so that a handler is a function on it *)

World ==
  [host |-> host, slideCount |-> slideCount, config |-> config, state |-> state,
   cloneSets |-> cloneSets, clones |-> clones, teleportTimer |-> teleportTimer,
   scrollEndTimer |-> scrollEndTimer,
   dragListeners |-> dragListeners, keyboardListeners |-> keyboardListeners,
   scrollPos |-> scrollPos, drag |-> drag,
   moved |-> FALSE, events |-> <<>>, cmds |-> <<>>, calls |-> <<>>,
   shown |-> FALSE,
   error |-> ""]

NoDrag == [open |-> FALSE, startScroll |-> 0, pending |-> 0, moveRaf |-> FALSE,
           swept |-> FALSE, startIndex |-> 0]

\* emit(): destroy() clears the listener map, so nothing is delivered afterwards
EmitFrom(W, type, index, fromIndex) ==
  IF W.state.isDestroyed THEN W
  ELSE [W EXCEPT !.events =
          Append(@, [type |-> type, index |-> index, fromIndex |-> fromIndex])]

Emit(W, type, index) == EmitFrom(W, type, index, -1)

---------------------------------------------------------------------------
(* Core helpers *)

IsFractionalView(W) == W.config.slidesPerView2 % 2 # 0

GetMaxIndexPaged(W) == Max(0, W.slideCount - W.config.slidesPerView2 \div 2)

GetMaxIndex(W) ==
  IF IsFractionalView(W) THEN Max(0, W.slideCount - 1)
  ELSE Max(0, W.slideCount - W.config.slidesPerView2 \div 2)

IsLoopEnabled(W) == W.config.loop /\ GetMaxIndex(W) > 0

GetEffectivePerMoveRaw(W) == W.config.perMove

GetEffectivePerMove(W) == IF W.config.perMove > 0 THEN W.config.perMove ELSE 1

NormalizeIndexNoWrapFix(W, index) ==
  IF ~IsLoopEnabled(W) THEN Max(0, Min(index, GetMaxIndex(W)))
  ELSE JsRem(index, W.slideCount)

NormalizeIndex(W, index) ==
  IF ~IsLoopEnabled(W) THEN Max(0, Min(index, GetMaxIndex(W)))
  ELSE JsRem(JsRem(index, W.slideCount) + W.slideCount, W.slideCount)

---------------------------------------------------------------------------
(* Host layout and direction-aware scroll helpers *)

\* clientWidth / clientHeight of the track: slidesPerView slides and the gaps between
GetViewportSize(W) == (W.config.slidesPerView2 * W.host.w) \div 2 - W.host.gap

\* children of the track: the clones before, the real slides, the clones after
TrackChildren(W) == Len(W.clones.before) + W.slideCount + Len(W.clones.after)

\* scrollWidth / scrollHeight: never less than the client size
GetTrackScrollSize(W) ==
  Max(TrackChildren(W) * W.host.w - W.host.gap, GetViewportSize(W))

MaxScroll(W) == GetTrackScrollSize(W) - GetViewportSize(W)

\* the host keeps the scroll position inside the scrollable range
ClampScroll(W, pos) == Max(0, Min(pos, MaxScroll(W)))

\* a write of the scroll position (scrollLeft = x, scrollTo): the host clamps it
\* and queues a scroll event when the position changed.  A smooth scroll is taken
\* at its end; the positions it passes through are those UserScroll leaves.
SetScrollPos(W, pos) ==
  LET p == ClampScroll(W, pos) IN
  [W EXCEPT !.scrollPos = p,
            !.moved = @ \/ p # W.scrollPos,
            !.cmds = Append(@, pos),
            !.calls = Append(@, "scrollTo")]

ScrollToPos(W, pos) == SetScrollPos(W, pos)

\* a layout change (slides or clones removed, another slidesPerView) reflows the
\* track; the host clamps a scroll position that fell outside the new range
Reflow(W) ==
  LET p == ClampScroll(W, W.scrollPos) IN
  [W EXCEPT !.scrollPos = p, !.moved = @ \/ p # W.scrollPos]

\* getBoundingClientRect of the first slide, plus config.gap
MeasureSlide(W) == IF W.slideCount = 0 THEN 0 ELSE (W.host.w - W.host.gap) + W.host.gap

\* getSlideSize(): the cached size, measured when the cache is empty
GetSlideSize(W) ==
  IF W.state.slideWidthPx > 0 THEN W.state.slideWidthPx ELSE MeasureSlide(W)

\* the caching side of getSlideSize()
CacheSlideSize(W) == [W EXCEPT !.state.slideWidthPx = GetSlideSize(W)]

RecalcSlideMetrics(W) == [W EXCEPT !.state.slideWidthPx = MeasureSlide(W)]

\* slideVisual / 2 - vpSize / 2 of a fractional view
CenterOffset(W, w) == ((w - W.host.gap) - GetViewportSize(W)) \div 2

---------------------------------------------------------------------------
(* Fractional slidesPerView: alignment helpers *)

GetScrollPosForIndexCentered(W, index) ==
  LET w == GetSlideSize(W) IN
  IF w = 0 THEN 0
  ELSE IF ~IsFractionalView(W) THEN index * w
  ELSE index * w + CenterOffset(W, w)

GetScrollPosForIndex(W, index) ==
  LET w == GetSlideSize(W) IN
  IF w = 0 THEN 0
  ELSE IF ~IsFractionalView(W) THEN index * w
  ELSE IF W.state.loopModeActive THEN index * w + CenterOffset(W, w)
  ELSE IF index <= 0 THEN 0
  ELSE IF index >= GetMaxIndex(W) THEN GetTrackScrollSize(W) - GetViewportSize(W)
  ELSE index * w + CenterOffset(W, w)

GetIndexFromScrollPos(W, pos) ==
  LET w == GetSlideSize(W)
      maxIdx == IF W.state.loopModeActive THEN W.slideCount - 1 ELSE GetMaxIndex(W)
      maxScroll == GetTrackScrollSize(W) - GetViewportSize(W)
  IN
  IF w = 0 THEN W.state.currentIndex
  ELSE IF ~IsFractionalView(W) THEN Max(0, Min(JsRound(pos, w), maxIdx))
  ELSE IF maxScroll <= 0 THEN 0
  ELSE IF pos <= 1 THEN 0
  ELSE IF pos >= maxScroll - 1 THEN maxIdx
  ELSE Max(0, Min(JsRound(2 * pos + GetViewportSize(W) - (w - W.host.gap), 2 * w),
                  maxIdx))

---------------------------------------------------------------------------
(* Loop controller (loop.ts) *)

\* the value of an absent data-aero-slider-index attribute
NoIndexAttr == -1

NoClones == [before |-> <<>>, after |-> <<>>]

\* slides[i].cloneNode(true) with the clone attribute set and the index
\* attribute removed
CloneOf(i) == [slide |-> i, indexAttr |-> NoIndexAttr]

\* the inner loops of setupLoopTrack: one set of clones prepended, last slide
\* first, and one set appended
RECURSIVE PrependSet(_, _)
PrependSet(children, i) ==
  IF i < 0 THEN children ELSE PrependSet(<<CloneOf(i)>> \o children, i - 1)

RECURSIVE AppendSet(_, _, _)
AppendSet(children, i, n) ==
  IF i >= n THEN children ELSE AppendSet(Append(children, CloneOf(i)), i + 1, n)

\* the outer loops: sets clone sets on either side
RECURSIVE PrependSets(_, _, _)
PrependSets(children, sets, n) ==
  IF sets = 0 THEN children ELSE PrependSets(PrependSet(children, n - 1), sets - 1, n)

RECURSIVE AppendSets(_, _, _)
AppendSets(children, sets, n) ==
  IF sets = 0 THEN children ELSE AppendSets(AppendSet(children, 0, n), sets - 1, n)

\* the two loops over the clones the track holds; cloneSets and
\* const { slides, slideCount } = ctx are read once, before the loops
CloneBands(W) ==
  CHOOSE bands \in {[before |-> PrependSets(W.clones.before, sets, n),
                     after |-> AppendSets(W.clones.after, sets, n)] :
                      sets \in {W.cloneSets}, n \in {W.slideCount}} : TRUE

\* track.querySelectorAll("[data-aero-slider-clone]").forEach((c) => c.remove())
RemoveClones(W) == [W EXCEPT !.clones = NoClones]

CalcCloneSets(W) ==
  LET needed == (W.config.slidesPerView2 + 1) \div 2 + CLONE_BUFFER IN
  Max(MIN_CLONE_SETS, CeilDiv(needed, W.slideCount))

GetLoopRealStart(W) == W.cloneSets * W.slideCount * W.state.slideWidthPx

GetLoopRealEnd(W) == (W.cloneSets + 1) * W.slideCount * W.state.slideWidthPx

InstantScrollTo(W, pos) == SetScrollPos(W, pos)

\* the two while loops of teleportIfNeeded
RECURSIVE IntoRealWindow(_, _, _, _)
IntoRealWindow(pos, realStart, realEnd, sectionWidth) ==
  IF pos < realStart
    THEN IntoRealWindow(pos + sectionWidth, realStart, realEnd, sectionWidth)
  ELSE IF pos >= realEnd
    THEN IntoRealWindow(pos - sectionWidth, realStart, realEnd, sectionWidth)
  ELSE pos

TeleportIfNeededNoTolerance(W) ==
  LET w == W.state.slideWidthPx
      sectionWidth == W.slideCount * w
      realStart == GetLoopRealStart(W)
      realEnd == GetLoopRealEnd(W)
      pos == W.scrollPos
  IN
  IF ~W.state.loopModeActive THEN W
  ELSE IF w = 0 THEN W
  ELSE IF pos < realStart \/ pos >= realEnd
    THEN InstantScrollTo(W, IntoRealWindow(pos, realStart, realEnd, sectionWidth))
  ELSE W

TeleportIfNeeded(W) ==
  LET w == W.state.slideWidthPx
      sectionWidth == W.slideCount * w
      realStart == GetLoopRealStart(W)
      realEnd == GetLoopRealEnd(W)
      pos == W.scrollPos
  IN
  IF ~W.state.loopModeActive THEN W
  ELSE IF w = 0 THEN W
  ELSE IF pos < realStart - TELEPORT_TOLERANCE \/ pos >= realEnd + TELEPORT_TOLERANCE
    THEN InstantScrollTo(W, IntoRealWindow(pos, realStart, realEnd, sectionWidth))
  ELSE W

\* calls lists, in order, what a handler does to the scroll position, to the
\* teleport timer and to the track's inline scroll-snap-type
ScheduleTeleportNoClear(W) ==
  [W EXCEPT !.teleportTimer = TRUE, !.calls = Append(@, "setTimeout")]

\* scheduleTeleport: clearTimeout when the handle is not null, then setTimeout
ScheduleTeleport(W) ==
  [W EXCEPT !.teleportTimer = TRUE, !.calls = Append(@, "scheduleTeleport")]

CancelTeleport(W) ==
  [W EXCEPT !.teleportTimer = FALSE, !.calls = Append(@, "cancelTeleport")]

\* the raw (unwrapped) slide index under the scroll position pos
LoopRawIndex(W, pos) ==
  LET w == W.state.slideWidthPx IN
  IF IsFractionalView(W)
    THEN JsRound(2 * pos + GetViewportSize(W) - 2 * GetLoopRealStart(W)
                   - (w - W.host.gap), 2 * w)
  ELSE JsRound(pos - GetLoopRealStart(W), w)

LoopIndexAtOneRem(W, pos) ==
  IF W.state.slideWidthPx = 0 THEN W.state.currentIndex
  ELSE JsRem(LoopRawIndex(W, pos), W.slideCount)

\* getLoopIndexFromScroll() with the scroll position as a parameter
LoopIndexAt(W, pos) ==
  IF W.state.slideWidthPx = 0 THEN W.state.currentIndex
  ELSE JsRem(JsRem(LoopRawIndex(W, pos), W.slideCount) + W.slideCount, W.slideCount)

GetLoopIndexFromScroll(W) == LoopIndexAt(W, W.scrollPos)

TeardownLoopTrackToFirst(W, anchorIndex) ==
  LET W1 == RemoveClones(CancelTeleport(W))
      W2 == Reflow([W1 EXCEPT !.state.loopModeActive = FALSE])
      W3 == RecalcSlideMetrics(W2)
      W4 == [W3 EXCEPT !.state.currentIndex = 0]
  IN InstantScrollTo(W4, GetScrollPosForIndex(W4, W4.state.currentIndex))

TeardownLoopTrack(W, anchorIndex) ==
  LET W1 == RemoveClones(CancelTeleport(W))
      W2 == Reflow([W1 EXCEPT !.state.loopModeActive = FALSE])
      W3 == RecalcSlideMetrics(W2)
      W4 == [W3 EXCEPT !.state.currentIndex = Max(0, Min(anchorIndex, GetMaxIndex(W3)))]
  IN InstantScrollTo(W4, GetScrollPosForIndex(W4, W4.state.currentIndex))

SetupLoopTrackKeepClones(W, anchorIndex) ==
  IF ~IsLoopEnabled(W)
    THEN IF W.state.loopModeActive THEN TeardownLoopTrack(W, anchorIndex) ELSE W
  ELSE
    LET W0 == [W EXCEPT !.cloneSets = CalcCloneSets(W)]
        W1 == [W0 EXCEPT
                 !.clones = CloneBands(W0),
                 !.state.loopModeActive = TRUE]
        W2 == RecalcSlideMetrics(W1)
        idx == NormalizeIndex(W2, anchorIndex)
        W3 == [W2 EXCEPT !.state.currentIndex = idx]
        w == W3.state.slideWidthPx
        realStart == W3.cloneSets * W3.slideCount * w
        pos == IF IsFractionalView(W3)
                 THEN realStart + idx * w + CenterOffset(W3, w)
               ELSE realStart + idx * w
    IN InstantScrollTo(W3, pos)

SetupLoopTrack(W, anchorIndex) ==
  IF ~IsLoopEnabled(W)
    THEN IF W.state.loopModeActive THEN TeardownLoopTrack(W, anchorIndex) ELSE W
  ELSE
    LET W0 == RemoveClones([W EXCEPT !.cloneSets = CalcCloneSets(W)])
        W1 == [W0 EXCEPT
                 !.clones = CloneBands(W0),
                 !.state.loopModeActive = TRUE]
        W2 == RecalcSlideMetrics(W1)
        idx == NormalizeIndex(W2, anchorIndex)
        W3 == [W2 EXCEPT !.state.currentIndex = idx]
        w == W3.state.slideWidthPx
        realStart == W3.cloneSets * W3.slideCount * w
        pos == IF IsFractionalView(W3)
                 THEN realStart + idx * w + CenterOffset(W3, w)
               ELSE realStart + idx * w
    IN InstantScrollTo(W3, pos)

---------------------------------------------------------------------------
(* Scroll handling *)

\* computeVisibleSet: the slides the view shows from currentIndex on
ComputeVisibleSet(W) ==
  LET count == CeilDiv(W.config.slidesPerView2, 2)
      from == W.state.currentIndex
  IN IF W.state.loopModeActive
       THEN {JsRem(JsRem(from + i, W.slideCount) + W.slideCount, W.slideCount) :
               i \in 0 .. count - 1}
     ELSE {idx \in from .. from + count - 1 : idx < W.slideCount}

\* updateVisibility: shown tells that the handler has brought visibleSlides
\* to computeVisibleSet()
UpdateVisibility(W) == [W EXCEPT !.shown = TRUE]

\* currentIndex written and slideChange emitted, as the drag release does
SetCurrentIndex(W, idx) ==
  IF idx # W.state.currentIndex
    THEN Emit([W EXCEPT !.state.currentIndex = idx], "slideChange", idx)
  ELSE W

\* the same followed by updateVisibility(), as syncIndex and goTo do
ChangeSlide(W, idx) ==
  IF idx # W.state.currentIndex
    THEN UpdateVisibility(
           Emit([W EXCEPT !.state.currentIndex = idx], "slideChange", idx))
  ELSE W

SyncIndexUnguarded(W) ==
  IF W.state.loopModeActive THEN ChangeSlide(W, GetLoopIndexFromScroll(W))
  ELSE LET W1 == CacheSlideSize(W) IN
       ChangeSlide(W1, GetIndexFromScrollPos(W1, W1.scrollPos))

SyncIndex(W) ==
  IF W.state.isDragging \/ W.state.isProgrammaticScroll THEN W
  ELSE IF W.state.loopModeActive THEN ChangeSlide(W, GetLoopIndexFromScroll(W))
  ELSE LET W1 == CacheSlideSize(W) IN
       ChangeSlide(W1, GetIndexFromScrollPos(W1, W1.scrollPos))

\* no wheel event is taken, so wheelTimer is null and the snap type is restored
OnScrollSettle(W) ==
  SyncIndex([W EXCEPT !.scrollEndTimer = FALSE, !.state.isProgrammaticScroll = FALSE,
                      !.calls = Append(@, "scrollSnapType = ")])

OnScrollNoTeleport(W) == SyncIndex([W EXCEPT !.scrollEndTimer = TRUE])

\* onScroll, and the animation frame it requests: the host runs the frame's
\* callbacks right after the scroll events of the same frame
OnScroll(W) ==
  LET W1 == IF W.state.loopModeActive THEN ScheduleTeleport(W) ELSE W IN
  SyncIndex([W1 EXCEPT !.scrollEndTimer = TRUE])

\* the scroll event of the positions a handler wrote is dispatched when the
\* handler has returned, to the listener destroy() may have removed by then
DispatchScroll(W) ==
  IF W.moved /\ ~W.state.isDestroyed THEN OnScroll([W EXCEPT !.moved = FALSE])
  ELSE [W EXCEPT !.moved = FALSE]

---------------------------------------------------------------------------
(* Public API *)

\* the scroll goTo commands in loop mode when the track already shows the target
GoToLoopSame(W, target, w) ==
  IF IsFractionalView(W)
    THEN GetLoopRealStart(W) + target * w + CenterOffset(W, w)
  ELSE GetLoopRealStart(W) + target * w

\* the signed number of slides goTo travels in loop mode
GoToLoopDelta(W, target) ==
  LET actualCurrent == GetLoopIndexFromScroll(W)
      forward == JsRem(target - actualCurrent + W.slideCount, W.slideCount)
      backward == forward - W.slideCount
  IN IF Abs(backward) < forward THEN backward ELSE forward

GoTo(W, index) ==
  IF W.state.isDestroyed THEN W
  ELSE
    LET target == NormalizeIndex(W, index)
        W1 == CacheSlideSize(W)
        w == W1.state.slideWidthPx
        W2 == ChangeSlide(W1, target)
    IN
    IF w = 0 THEN W1
    ELSE IF W2.state.loopModeActive THEN
      LET W3 == [CancelTeleport(W2) EXCEPT !.state.isProgrammaticScroll = TRUE]
          delta == GoToLoopDelta(W3, target)
      IN IF delta = 0
           THEN ScheduleTeleport(ScrollToPos(W3, GoToLoopSame(W3, target, w)))
         ELSE ScheduleTeleport(ScrollToPos(W3, W3.scrollPos + delta * w))
    ELSE
      LET W3 == [W2 EXCEPT !.state.isProgrammaticScroll = TRUE] IN
      ScrollToPos(W3, GetScrollPosForIndex(W3, target))

NextSlide(W) ==
  IF W.state.isDestroyed THEN W
  ELSE GoTo(W, NormalizeIndex(W, W.state.currentIndex + GetEffectivePerMove(W)))

PrevSlide(W) ==
  IF W.state.isDestroyed THEN W
  ELSE GoTo(W, NormalizeIndex(W, W.state.currentIndex - GetEffectivePerMove(W)))

\* {...config, ...nextConfig}
MergeConfig(c, nc) == [k \in DOMAIN c |-> IF k \in DOMAIN nc THEN nc[k] ELSE c[k]]

SetDragEnabled(W, enabled) == [W EXCEPT !.dragListeners = enabled]

SetKeyboardEnabled(W, enabled) == [W EXCEPT !.keyboardListeners = enabled]

RealignNoClamp(W) ==
  IF ~W.state.loopModeActive
    THEN LET W1 == CacheSlideSize(W)
         IN ScrollToPos(W1, GetScrollPosForIndex(W1, W1.state.currentIndex))
  ELSE W

\* the tail update() and refresh() share: clamp and re-align outside loop mode
Realign(W) ==
  IF ~W.state.loopModeActive
    THEN LET normalized == NormalizeIndex(W, W.state.currentIndex)
             W1 == CacheSlideSize([W EXCEPT !.state.currentIndex = normalized])
         IN ScrollToPos(W1, GetScrollPosForIndex(W1, normalized))
  ELSE W

\* update(nextConfig), the stylesheet giving --slides-per-view = cssSpv2 / 2
Update(W, nextConfig, cssSpv2) ==
  LET prevConfig == W.config
      W1 == [W EXCEPT !.config =
                [MergeConfig(W.config, nextConfig) EXCEPT !.slidesPerView2 = cssSpv2]]
      W2 == RecalcSlideMetrics(Reflow(W1))
      W3 == SetKeyboardEnabled(SetDragEnabled(W2, W2.config.draggable), TRUE)
      W4 == IF prevConfig.loop # W3.config.loop
              THEN IF IsLoopEnabled(W3) THEN SetupLoopTrack(W3, W3.state.currentIndex)
                   ELSE TeardownLoopTrack(W3, W3.state.currentIndex)
            ELSE IF W3.state.loopModeActive
                    /\ prevConfig.slidesPerView2 # W3.config.slidesPerView2
              THEN SetupLoopTrack(W3, W3.state.currentIndex)
            ELSE W3
  IN UpdateVisibility(SyncIndex(Realign(W4)))


\* refresh() once the track's children have been counted again
RefreshScanned(W, cssSpv2) ==
  IF W.slideCount = 0 THEN W
  ELSE
    LET W1 == RecalcSlideMetrics(Reflow([W EXCEPT !.config.slidesPerView2 = cssSpv2]))
        W2 == IF IsLoopEnabled(W1) THEN SetupLoopTrack(W1, W1.state.currentIndex)
              ELSE W1
    IN UpdateVisibility(SyncIndex(Realign(W2)))

Refresh(W, cssSpv2) ==
  IF W.state.isDestroyed THEN W
  ELSE
    LET W1 == IF W.state.loopModeActive
                THEN TeardownLoopTrack(W, W.state.currentIndex) ELSE W
    IN RefreshScanned(W1, cssSpv2)

\* add(newSlides, index) with count new slides
Add(W, count, cssSpv2) ==
  IF W.state.isDestroyed THEN W
  ELSE
    LET W1 == IF W.state.loopModeActive
                THEN TeardownLoopTrack(W, W.state.currentIndex) ELSE W
        W2 == [W1 EXCEPT !.slideCount = @ + count]
    IN Refresh(W2, cssSpv2)

\* remove(indices): the indices inside [0, realChildren.length) are removed
Remove(W, indices, cssSpv2) ==
  IF W.state.isDestroyed THEN W
  ELSE
    LET W1 == IF W.state.loopModeActive
                THEN TeardownLoopTrack(W, W.state.currentIndex) ELSE W
        gone == Cardinality({i \in indices : i >= 0 /\ i < W1.slideCount})
        W2 == Reflow([W1 EXCEPT !.slideCount = @ - gone])
    IN Refresh(W2, cssSpv2)

\* destroy() from the statement after its emit("destroy") on
DestroyAfterEmit(W1) ==
  LET W2 == [W1 EXCEPT !.state.isDestroyed = TRUE]
      W3 == IF W2.state.loopModeActive
              THEN TeardownLoopTrack(W2, W2.state.currentIndex) ELSE W2
      W4 == [CancelTeleport(W3) EXCEPT !.state.isProgrammaticScroll = FALSE,
                                       !.scrollEndTimer = FALSE]
      W5 == SetKeyboardEnabled(SetDragEnabled(W4, FALSE), FALSE)
  IN [W5 EXCEPT !.host.aeroSlider = FALSE]

\* destroy() with passive listeners
Destroy(W) ==
  IF W.state.isDestroyed THEN W
  ELSE DestroyAfterEmit(Emit(W, "destroy", W.state.currentIndex))

\* destroy() while a 'destroy' listener is registered that calls destroy()
\* itself: emit runs the listener inside the call; stack is the number of calls
\* the call stack still takes, and the RangeError of a call too many unwinds
\* through every caller
RECURSIVE DestroyReentrant(_, _)
DestroyReentrant(W, stack) ==
  IF W.state.isDestroyed THEN W
  ELSE IF stack = 0 THEN [W EXCEPT !.error = "RangeError: Maximum call stack size exceeded"]
  ELSE
    LET W1 == DestroyReentrant(Emit(W, "destroy", W.state.currentIndex), stack - 1)
    IN IF W1.error # "" THEN W1 ELSE DestroyAfterEmit(W1)

---------------------------------------------------------------------------
(* Drag controller (drag.ts) *)

OnPointerDown(W) ==
  LET W1 == [W EXCEPT !.state.isDragging = TRUE,
                      !.calls = Append(@, "scrollSnapType = none"),
                      !.drag = [open |-> TRUE, startScroll |-> W.scrollPos,
                                pending |-> 0, moveRaf |-> FALSE, swept |-> FALSE,
                                startIndex |-> W.state.currentIndex]]
  IN Emit(W1, "dragStart", W1.state.currentIndex)

\* delta is (startCoord - coord) * sign; velocity is 0 from the pointer-down
\* until a move gives it a value (swept)
OnPointerMove(W, delta) ==
  IF ~W.state.isDragging THEN W
  ELSE [W EXCEPT !.drag.pending = W.drag.startScroll + delta, !.drag.moveRaf = TRUE,
                 !.drag.swept = TRUE]

\* pendingScroll is read only by a requested frame: it is kept at 0 without one
FlushDragScroll(W) ==
  SetScrollPos([W EXCEPT !.drag.moveRaf = FALSE, !.drag.pending = 0], W.drag.pending)

ReleaseLoopRaw(W, momentum, w) ==
  LET W1 == TeleportIfNeeded(W)
      realStart == GetLoopRealStart(W1)
      rawIdx == LoopRawIndex(W1, W1.scrollPos + momentum)
      targetScroll == IF IsFractionalView(W1)
                        THEN realStart + rawIdx * w + CenterOffset(W1, w)
                      ELSE realStart + rawIdx * w
      W2 == [W1 EXCEPT !.state.isProgrammaticScroll = TRUE]
      W3 == ScheduleTeleport(ScrollToPos(W2, targetScroll))
  IN SetCurrentIndex(W3, rawIdx)

\* the release in loop mode; momentum is velocity * MOMENTUM_FACTOR
ReleaseLoop(W, momentum, w) ==
  LET W1 == TeleportIfNeeded(W)
      realStart == GetLoopRealStart(W1)
      rawIdx == LoopRawIndex(W1, W1.scrollPos + momentum)
      targetScroll == IF IsFractionalView(W1)
                        THEN realStart + rawIdx * w + CenterOffset(W1, w)
                      ELSE realStart + rawIdx * w
      W2 == [W1 EXCEPT !.state.isProgrammaticScroll = TRUE]
      W3 == ScheduleTeleport(ScrollToPos(W2, targetScroll))
  IN SetCurrentIndex(W3, NormalizeIndex(W3, rawIdx))

\* the release outside loop mode
ReleaseNonLoop(W, momentum) ==
  GoTo(W, GetIndexFromScrollPos(W, W.scrollPos + momentum))

OnPointerUpMeasuredOnly(W, momentum) ==
  IF ~W.state.isDragging THEN W
  ELSE
    LET W1 == [W EXCEPT !.state.isDragging = FALSE]
        W2 == IF W1.drag.moveRaf THEN FlushDragScroll(W1) ELSE W1
        W3 == CacheSlideSize(W2)
        w == W3.state.slideWidthPx
        W4 == IF w > 0
                THEN IF W3.state.loopModeActive THEN ReleaseLoop(W3, momentum, w)
                     ELSE ReleaseNonLoop(W3, momentum)
              ELSE W3
        W5 == IF w > 0
                THEN EmitFrom(W4, "dragEnd", W4.state.currentIndex, W4.drag.startIndex)
              ELSE W4
    IN [W5 EXCEPT !.drag = NoDrag]

OnPointerUp(W, momentum) ==
  IF ~W.state.isDragging THEN W
  ELSE
    LET W1 == [W EXCEPT !.state.isDragging = FALSE]
        W2 == IF W1.drag.moveRaf THEN FlushDragScroll(W1) ELSE W1
        W3 == CacheSlideSize(W2)
        w == W3.state.slideWidthPx
        W4 == IF w > 0
                THEN IF W3.state.loopModeActive THEN ReleaseLoop(W3, momentum, w)
                     ELSE ReleaseNonLoop(W3, momentum)
              ELSE W3
        W5 == EmitFrom(W4, "dragEnd", W4.state.currentIndex, W4.drag.startIndex)
    IN [W5 EXCEPT !.drag = NoDrag]

---------------------------------------------------------------------------
(* Inputs of the model *)

Layouts == {[w |-> 4, gap |-> 0]}

\* --slides-per-view, doubled: 1, 1.5 and 2
SpvSet == {2, 3, 4}

\* config.perMove: not given, and 2
PerMoves == {0, 2}

GoToArgs == (0 - 2) .. (MaxSlides + 1)

EmptyConfig == [k \in {} |-> TRUE]

NextConfigs == {EmptyConfig, [loop |-> TRUE], [loop |-> FALSE]}

\* (startCoord - coord) * sign of a pointer move
DragDeltas == {-6, 6}

\* velocity * MOMENTUM_FACTOR at release: nothing, a flick, a throw past either end
Momenta == {-1000, -5, 0, 5, 1000}

\* positions a native scroll (wheel, touch, scrollbar) reports next: up to two
\* slides away, in steps of 2 px, or the end of the track
ScrollStops(W) ==
  {p \in Max(0, W.scrollPos - 2 * W.host.w) .. Min(MaxScroll(W), W.scrollPos + 2 * W.host.w) :
     p % 2 = 0 \/ p = MaxScroll(W)}

---------------------------------------------------------------------------
(* Construction *)

NoThumb == [bound |-> FALSE]

\* a container element before createSlider is called on it: the layout h the
\* host renders, whether it holds a .aero-slider__track, the n children of the
\* track that are not clones, the clones an earlier instance left in it; the
\* variables of the closure at their declarations
Container(h, hasTrack, n, leftClones) ==
  [host |-> [track |-> hasTrack, indexed |-> FALSE, aeroSlider |-> FALSE] @@ h,
   slideCount |-> n,
   config |-> [loop |-> FALSE, slidesPerView2 |-> 2, perMove |-> 0, draggable |-> TRUE],
   state |-> [currentIndex |-> 0, isDragging |-> FALSE,
              isDestroyed |-> FALSE, loopModeActive |-> FALSE,
              isProgrammaticScroll |-> FALSE, slideWidthPx |-> 0],
   cloneSets |-> MIN_CLONE_SETS, clones |-> leftClones,
   teleportTimer |-> FALSE,
   scrollEndTimer |-> FALSE,
   dragListeners |-> FALSE, keyboardListeners |-> FALSE,
   scrollPos |-> 0, drag |-> NoDrag,
   moved |-> FALSE, events |-> <<>>, cmds |-> <<>>, calls |-> <<>>,
   shown |-> FALSE,
   error |-> ""]

CreateSliderChecksLast(C, userConfig, cssSpv2) ==
  LET W0 == [C EXCEPT
               !.host.indexed = TRUE,
               !.config = [loop |-> userConfig.loop, slidesPerView2 |-> cssSpv2,
                           perMove |-> userConfig.perMove,
                           draggable |-> userConfig.draggable]]
        W1 == RecalcSlideMetrics(W0)
        W2 == IF IsLoopEnabled(W1) THEN SetupLoopTrack(W1, 0) ELSE SetScrollPos(W1, 0)
        W3 == SetKeyboardEnabled(SetDragEnabled(W2, W2.config.draggable), TRUE)
        W4 == [W3 EXCEPT !.host.aeroSlider = TRUE]
  IN IF ~C.host.track THEN [W4 EXCEPT !.error = "aero-slider: missing .aero-slider__track"]
     ELSE IF C.slideCount = 0 THEN [W4 EXCEPT !.error = "aero-slider: no slides found"]
     ELSE Emit(W4, "ready", W4.state.currentIndex)

\* createSlider(container, userConfig), the container read with
\* --slides-per-view at cssSpv2 / 2; error is the message of the Error thrown
CreateSlider(C, userConfig, cssSpv2) ==
  IF ~C.host.track THEN [C EXCEPT !.error = "aero-slider: missing .aero-slider__track"]
  ELSE IF C.slideCount = 0 THEN [C EXCEPT !.error = "aero-slider: no slides found"]
  ELSE
    LET W0 == [C EXCEPT
               !.host.indexed = TRUE,
               !.config = [loop |-> userConfig.loop, slidesPerView2 |-> cssSpv2,
                           perMove |-> userConfig.perMove,
                           draggable |-> userConfig.draggable]]
        W1 == RecalcSlideMetrics(W0)
        W2 == IF IsLoopEnabled(W1) THEN SetupLoopTrack(W1, 0) ELSE SetScrollPos(W1, 0)
        W3 == SetKeyboardEnabled(SetDragEnabled(W2, W2.config.draggable), TRUE)
        W4 == UpdateVisibility([W3 EXCEPT !.host.aeroSlider = TRUE])
    IN Emit(W4, "ready", W4.state.currentIndex)


\* what a handler leaves behind for the listeners and the track: the events it
\* emitted and the scroll positions it commanded; for goTo and a drag release
\* the input, for goTo how far the command is from the position at the call,
\* for next, prev, remove and update the index they started from, for update
\* whether it switched the loop setting
Trace(W, op, arg) ==
  [op |-> op,
   arg |-> IF op \in {"goTo", "pointerUp", "destroy"} THEN arg
           ELSE IF op = "update" /\ W.config.loop # config.loop THEN 1
           ELSE 0,
   prevIndex |-> IF op \in {"next", "prev", "remove", "update"}
                   THEN state.currentIndex ELSE 0,
   travel |-> IF op = "goTo" /\ W.cmds # <<>> THEN W.cmds[Len(W.cmds)] - scrollPos
              ELSE 0,
   events |-> W.events, cmds |-> W.cmds, error |-> W.error]

\* the variables take the values the handler left, once the scroll event of the
\* positions it wrote has been dispatched
Install(V, op, arg) ==
  \E W \in {DispatchScroll(V)} :
  /\ host' = W.host
  /\ slideCount' = W.slideCount
  /\ config' = W.config
  /\ state' = W.state
  /\ cloneSets' = W.cloneSets
  /\ clones' = W.clones
  /\ teleportTimer' = W.teleportTimer
  /\ scrollEndTimer' = W.scrollEndTimer
  /\ dragListeners' = W.dragListeners
  /\ keyboardListeners' = W.keyboardListeners
  /\ scrollPos' = W.scrollPos
  /\ drag' = W.drag
  /\ last' = Trace(W, op, arg)

\* createSlider over the layouts L, up to N slides, the perMove options PM and
\* the --slides-per-view values S
InitWith(L, N, PM, S) ==
  \E h \in L, n \in 1 .. N, lp \in BOOLEAN, pm \in PM, css \in S :
    \E W \in {DispatchScroll(
                 CreateSlider(Container(h, TRUE, n, NoClones),
                              [loop |-> lp, perMove |-> pm, draggable |-> TRUE], css))} :
       /\ host = W.host
       /\ slideCount = W.slideCount
       /\ config = W.config
       /\ state = W.state
       /\ cloneSets = W.cloneSets
       /\ clones = W.clones
       /\ teleportTimer = W.teleportTimer
       /\ scrollEndTimer = W.scrollEndTimer
       /\ dragListeners = W.dragListeners
       /\ keyboardListeners = W.keyboardListeners
       /\ scrollPos = W.scrollPos
       /\ drag = W.drag
       /\ last = [op |-> "createSlider", arg |-> 0, prevIndex |-> 0, travel |-> 0,
                  events |-> W.events, cmds |-> W.cmds, error |-> W.error]

\* a handler of a slider that no thumbnail rail is bound to
InstallSlider(V, op, arg) == Install(V, op, arg) /\ UNCHANGED <<thumb, clock>>

InitSlider == InitWith(Layouts, MaxSlides, {0}, SpvSet)

Init == InitSlider /\ thumb = NoThumb /\ clock = -1

---------------------------------------------------------------------------
(* Actions: the public API.  The caller's code runs between drag sessions;    *)
(* inside one, only destroy() is taken.                                      *)

DoGoTo ==
  /\ ~drag.open
  /\ \E i \in GoToArgs : InstallSlider(GoTo(World, i), "goTo", i)

DoNext == ~drag.open /\ InstallSlider(NextSlide(World), "next", 0)

DoPrev == ~drag.open /\ InstallSlider(PrevSlide(World), "prev", 0)

DoUpdate ==
  /\ ~drag.open
  /\ \E nc \in NextConfigs, css \in SpvSet :
       InstallSlider(Update(World, nc, css), "update", 0)

DoRefresh ==
  /\ ~drag.open
  /\ \E css \in SpvSet : InstallSlider(Refresh(World, css), "refresh", 0)

DoAdd ==
  /\ ~drag.open
  /\ \E count \in 1 .. MaxSlides :
       /\ slideCount + count <= MaxSlides
       /\ InstallSlider(Add(World, count, config.slidesPerView2), "add", count)

DoRemove ==
  /\ ~drag.open
  /\ \E indices \in SUBSET (0 .. MaxSlides - 1) :
       /\ indices # {}
       /\ InstallSlider(Remove(World, indices, config.slidesPerView2), "remove",
                  Cardinality(indices))

DoDestroy == InstallSlider(Destroy(World), "destroy", 0)

(* Actions: the host *)

\* the user scrolls the track natively (the pointer is free: no drag in progress)
UserScroll ==
  /\ ~state.isDestroyed
  /\ ~drag.open
  /\ \E p \in ScrollStops(World) :
       /\ p # scrollPos
       /\ InstallSlider([World EXCEPT !.scrollPos = p, !.moved = TRUE], "scroll", 0)

ScrollSettle ==
  /\ scrollEndTimer
  /\ InstallSlider(OnScrollSettle(World), "scrollSettle", 0)

TeleportTimeout ==
  /\ teleportTimer
  /\ InstallSlider(TeleportIfNeeded([World EXCEPT !.teleportTimer = FALSE]), "teleport", 0)

PointerDown ==
  /\ dragListeners
  /\ ~drag.open
  /\ InstallSlider(OnPointerDown(World), "pointerDown", 0)

PointerMove ==
  /\ drag.open
  /\ \E d \in DragDeltas : InstallSlider(OnPointerMove(World, d), "pointerMove", 0)

DragFrame ==
  /\ drag.open
  /\ drag.moveRaf
  /\ InstallSlider(FlushDragScroll(World), "dragFrame", 0)

PointerUp ==
  /\ drag.open
  /\ \E m \in Momenta :
       /\ m = 0 \/ drag.swept
       /\ InstallSlider(OnPointerUp(World, m), "pointerUp", m)

Next ==
  \/ DoGoTo \/ DoNext \/ DoPrev \/ DoUpdate \/ DoRefresh \/ DoAdd \/ DoRemove
  \/ DoDestroy \/ UserScroll \/ ScrollSettle
  \/ TeleportTimeout \/ PointerDown \/ PointerMove \/ DragFrame \/ PointerUp

Spec == Init /\ [][Next]_vars

\* navigation alone, over the perMove options: no drag, no change of
\* configuration or slide set
InitNav == InitWith(Layouts, MaxSlides, PerMoves, SpvSet) /\ thumb = NoThumb /\ clock = -1

NextNav ==
  \/ DoGoTo \/ DoNext \/ DoPrev \/ UserScroll \/ ScrollSettle \/ TeleportTimeout

SpecNav == InitNav /\ [][NextNav]_vars

\* the loop in use: navigation, native scrolls and drags on a slider whose
\* configuration and slides stay as created
NextLoop ==
  \/ DoGoTo \/ DoNext \/ DoPrev \/ UserScroll \/ ScrollSettle \/ TeleportTimeout
  \/ PointerDown \/ PointerMove \/ DragFrame \/ PointerUp

\* setTimeout: a timeout that stays pending fires.  This is weak fairness of
\* the timeout's action, written out: the action is enabled exactly while its
\* timer is pending, and its steps are those that leave its name in last.
TeleportTimeoutFires ==
  ([]<>(~teleportTimer)) \/ ([]<><<last'.op = "teleport">>_vars)

ScrollSettleFires ==
  ([]<>(~scrollEndTimer)) \/ ([]<><<last'.op = "scrollSettle">>_vars)

SpecLoop ==
  /\ Init
  /\ [][NextLoop]_vars
  /\ TeleportTimeoutFires
  /\ ScrollSettleFires

\* the teleport timer on the host's clock.  Here clock is the host's queue of
\* pending teleport timeouts, oldest first, each with the milliseconds left to
\* it; teleportTimer is the handle of the newest, which is the one
\* clearTimeout(teleportTimer) takes out of the queue.
TickMs == 25

\* the queue after the calls of a handler: cancelTeleport and scheduleTeleport
\* clear the newest timeout, if there is one, and scheduleTeleport sets one
\* of TELEPORT_DELAY_MS
DropNewest(queue) ==
  IF queue = <<>> THEN queue ELSE SubSeq(queue, 1, Len(queue) - 1)

RECURSIVE ApplyTimeouts(_, _)
ApplyTimeouts(queue, calls) ==
  IF calls = <<>> THEN queue
  ELSE IF calls[1] = "scheduleTeleport"
    THEN ApplyTimeouts(Append(DropNewest(queue), TELEPORT_DELAY_MS), Tail(calls))
  ELSE IF calls[1] = "setTimeout"
    THEN ApplyTimeouts(Append(queue, TELEPORT_DELAY_MS), Tail(calls))
  ELSE IF calls[1] = "cancelTeleport"
    THEN ApplyTimeouts(DropNewest(queue), Tail(calls))
  ELSE ApplyTimeouts(queue, Tail(calls))

InstallTimed(V, queue, op, arg) ==
  /\ Install(V, op, arg)
  /\ \E calls \in {DispatchScroll(V).calls} :
       clock' = ApplyTimeouts(queue, calls)
  /\ UNCHANGED thumb

InitTimed ==
  /\ InitSlider
  /\ thumb = NoThumb
  /\ clock = IF teleportTimer THEN <<TELEPORT_DELAY_MS>> ELSE <<>>

TimedGoTo ==
  /\ ~drag.open
  /\ \E i \in GoToArgs : InstallTimed(GoTo(World, i), clock, "goTo", i)

TimedNext == ~drag.open /\ InstallTimed(NextSlide(World), clock, "next", 0)

TimedScroll ==
  /\ ~state.isDestroyed
  /\ \E p \in ScrollStops(World) :
       /\ p # scrollPos
       /\ InstallTimed([World EXCEPT !.scrollPos = p, !.moved = TRUE], clock,
                       "scroll", 0)

TimedSettle ==
  /\ scrollEndTimer
  /\ InstallTimed(OnScrollSettle(World), clock, "scrollSettle", 0)

TimedDestroy == InstallTimed(Destroy(World), clock, "destroy", 0)

\* time passes while no timeout of the queue is due
TimePasses ==
  /\ clock # <<>>
  /\ \A k \in 1 .. Len(clock) : clock[k] >= TickMs
  /\ clock' = [k \in 1 .. Len(clock) |-> clock[k] - TickMs]
  /\ last' = [last EXCEPT !.op = "tick", !.events = <<>>, !.cmds = <<>>]
  /\ UNCHANGED <<host, slideCount, config, state, cloneSets, clones,
                 teleportTimer, scrollEndTimer, dragListeners,
                 keyboardListeners, scrollPos, drag, thumb>>

\* the oldest timeout of the queue is due: the host runs its callback
TeleportDue ==
  /\ clock # <<>>
  /\ clock[1] = 0
  /\ InstallTimed(TeleportIfNeeded([World EXCEPT !.teleportTimer = FALSE]),
                  Tail(clock), "teleport", 0)

NextTimed ==
  \/ TimedGoTo \/ TimedNext \/ TimedScroll \/ TimedSettle \/ TimedDestroy
  \/ TimePasses \/ TeleportDue

SpecTimed == InitTimed /\ [][NextTimed]_vars

\* the calls of goTo(index) from the current state
GoToCalls(index) == GoTo(World, index).calls

\* a pending teleport is cancelled before the first scroll command, and the
\* teleport is scheduled after the last one and not before
CancelsThenSchedules(calls) ==
  \E c, s \in 1 .. Len(calls) :
    /\ calls[c] = "cancelTeleport"
    /\ calls[s] = "scheduleTeleport"
    /\ \A k \in 1 .. Len(calls) :
         /\ calls[k] = "scrollTo" => (c < k /\ k < s)
         /\ calls[k] = "scheduleTeleport" => k >= s
    /\ \E k \in 1 .. Len(calls) : calls[k] = "scrollTo"

\* C27: the host holds at most one teleport timeout at any time, and holds one
\* exactly while the handle is set; the teleport callback runs only when the
\* timeout has counted its 50ms down, and every scroll event in loop mode
\* leaves one timeout with the full 50ms ahead of it; a goTo that scrolls in
\* loop mode clears the pending timeout before its scroll command and sets a
\* new one after it.
C27_TeleportTimer ==
  /\ [](Len(clock) <= 1 /\ (teleportTimer <=> clock # <<>>))
  /\ [][last'.op = "teleport" => clock = <<0>>]_vars
  /\ [][(last'.op = "scroll" /\ state'.loopModeActive)
          => clock' = <<TELEPORT_DELAY_MS>>]_vars
  /\ [][(last'.op = "goTo" /\ state.loopModeActive /\ last'.cmds # <<>>)
          => /\ CancelsThenSchedules(GoToCalls(last'.arg))
             /\ clock' = <<TELEPORT_DELAY_MS>>]_vars

\* a goTo in loop mode has scrolled and left one timeout with 50ms ahead of it
C27_Witness ==
  /\ last.op = "goTo"
  /\ state.loopModeActive
  /\ last.cmds # <<>>
  /\ teleportTimer
  /\ clock = <<TELEPORT_DELAY_MS>>

\* the track's inline scroll-snap-type over drags, navigation and native
\* scrolls: clock holds it, "" being the stylesheet's value
SnapAfter(snap, calls) ==
  LET writes == SelectSeq(calls, LAMBDA c : c \in {"scrollSnapType = none",
                                                   "scrollSnapType = "})
  IN IF writes = <<>> THEN snap
     ELSE IF writes[Len(writes)] = "scrollSnapType = none" THEN "none"
     ELSE ""

InstallSnap(V, op, arg) ==
  /\ Install(V, op, arg)
  /\ \E calls \in {DispatchScroll(V).calls} : clock' = SnapAfter(clock, calls)
  /\ UNCHANGED thumb

InitSnap == InitSlider /\ thumb = NoThumb /\ clock = ""

SnapGoTo ==
  /\ ~drag.open
  /\ \E i \in GoToArgs : InstallSnap(GoTo(World, i), "goTo", i)

SnapScroll ==
  /\ ~state.isDestroyed
  /\ ~drag.open
  /\ \E p \in ScrollStops(World) :
       /\ p # scrollPos
       /\ InstallSnap([World EXCEPT !.scrollPos = p, !.moved = TRUE], "scroll", 0)

SnapScrollSettle ==
  /\ scrollEndTimer
  /\ InstallSnap(OnScrollSettle(World), "scrollSettle", 0)

SnapTeleport ==
  /\ teleportTimer
  /\ InstallSnap(TeleportIfNeeded([World EXCEPT !.teleportTimer = FALSE]),
                 "teleport", 0)

SnapPointerDown ==
  /\ dragListeners
  /\ ~drag.open
  /\ InstallSnap(OnPointerDown(World), "pointerDown", 0)

SnapPointerMove ==
  /\ drag.open
  /\ \E d \in DragDeltas : InstallSnap(OnPointerMove(World, d), "pointerMove", 0)

SnapDragFrame ==
  /\ drag.open
  /\ drag.moveRaf
  /\ InstallSnap(FlushDragScroll(World), "dragFrame", 0)

SnapPointerUp ==
  /\ drag.open
  /\ \E m \in Momenta :
       /\ m = 0 \/ drag.swept
       /\ InstallSnap(OnPointerUp(World, m), "pointerUp", m)

NextSnap ==
  \/ SnapGoTo \/ SnapScroll \/ SnapScrollSettle \/ SnapTeleport
  \/ SnapPointerDown \/ SnapPointerMove \/ SnapDragFrame \/ SnapPointerUp

SpecSnap == InitSnap /\ [][NextSnap]_vars

\* nothing is left to run without the user: no drag, no timer pending
Quiescent == ~drag.open /\ ~scrollEndTimer /\ ~teleportTimer

\* C30: every pointer-down switches scroll snapping off, and once the drag has
\* ended snapping is restored by the time the instance has nothing left to
\* run (a settle or teleport timer still pending may yet restore it; beyond
\* them only a new input of the user can).
C30_SnapRestored ==
  /\ [][last'.op = "pointerDown" => clock' = "none"]_vars
  /\ [](Quiescent => clock = "")

\* a drag that moved the track has ended and a settle timer runs, snapping
\* still off
C30_Witness ==
  /\ last.op = "pointerUp"
  /\ ~drag.open
  /\ clock = "none"
  /\ scrollEndTimer

\* the slides shown over navigation, native scrolls, drags, update() and
\* refresh(): clock holds visibleSlides, the slides for which 'visible' was
\* emitted and 'hidden' has not been since
VisibleAfter(W, visibleSlides) ==
  IF W.shown THEN ComputeVisibleSet(W) ELSE visibleSlides

InstallVisible(V, op, arg) ==
  /\ Install(V, op, arg)
  /\ \E W \in {DispatchScroll(V)} : clock' = VisibleAfter(W, clock)
  /\ UNCHANGED thumb

InitVisible == InitSlider /\ thumb = NoThumb /\ clock = ComputeVisibleSet(World)

\* goTo over the indices of the slides and one on either side
VisibleGoTo ==
  /\ ~drag.open
  /\ \E i \in (0 - 1) .. MaxSlides : InstallVisible(GoTo(World, i), "goTo", i)

VisibleNext == ~drag.open /\ InstallVisible(NextSlide(World), "next", 0)

VisiblePrev == ~drag.open /\ InstallVisible(PrevSlide(World), "prev", 0)

VisibleUpdate ==
  /\ ~drag.open
  /\ \E nc \in NextConfigs, css \in SpvSet :
       InstallVisible(Update(World, nc, css), "update", 0)

VisibleRefresh ==
  /\ ~drag.open
  /\ \E css \in SpvSet : InstallVisible(Refresh(World, css), "refresh", 0)

VisibleScroll ==
  /\ ~state.isDestroyed
  /\ ~drag.open
  /\ \E p \in ScrollStops(World) :
       /\ p # scrollPos
       /\ InstallVisible([World EXCEPT !.scrollPos = p, !.moved = TRUE], "scroll", 0)

VisibleScrollSettle ==
  /\ scrollEndTimer
  /\ InstallVisible(OnScrollSettle(World), "scrollSettle", 0)

VisibleTeleport ==
  /\ teleportTimer
  /\ InstallVisible(TeleportIfNeeded([World EXCEPT !.teleportTimer = FALSE]),
                    "teleport", 0)

VisiblePointerDown ==
  /\ dragListeners
  /\ ~drag.open
  /\ InstallVisible(OnPointerDown(World), "pointerDown", 0)

VisiblePointerMove ==
  /\ drag.open
  /\ \E d \in DragDeltas : InstallVisible(OnPointerMove(World, d), "pointerMove", 0)

VisibleDragFrame ==
  /\ drag.open
  /\ drag.moveRaf
  /\ InstallVisible(FlushDragScroll(World), "dragFrame", 0)

\* the release after a move, with the flick of either direction or none
VisiblePointerUp ==
  /\ drag.open
  /\ \E m \in {-5, 0, 5} :
       /\ m = 0 \/ drag.swept
       /\ InstallVisible(OnPointerUp(World, m), "pointerUp", m)

NextVisible ==
  \/ VisibleGoTo \/ VisibleNext \/ VisiblePrev \/ VisibleUpdate \/ VisibleRefresh
  \/ VisibleScroll \/ VisibleScrollSettle \/ VisibleTeleport
  \/ VisiblePointerDown \/ VisiblePointerMove \/ VisibleDragFrame
  \/ VisiblePointerUp

SpecVisible == InitVisible /\ [][NextVisible]_vars

\* C31: after every completed operation that changes currentIndex, the slides
\* shown ('visible' emitted, no 'hidden' since) are currentIndex and the
\* ceil(slidesPerView) - 1 slides after it, wrapped in loop mode and cut at
\* slideCount otherwise.
C31_VisibleWindow ==
  [][state'.currentIndex # state.currentIndex
       => clock' = ComputeVisibleSet([state |-> state', config |-> config',
                                      slideCount |-> slideCount'])]_vars

\* a drag has been released in loop mode on another slide than it started from
C31_Witness ==
  /\ last.op = "pointerUp"
  /\ state.loopModeActive
  /\ \E k \in 1 .. Len(last.events) : last.events[k].type = "slideChange"
  /\ ~state.isDestroyed

\* the clones of the track over its life: slides added and removed, the loop
\* switched, and --slides-per-view (doubled) up to 7.5, wide enough for the
\* slides to need more than the minimum of clone sets
CloneSpvSet == {2, 3, 4, 9, 15}

InitClones == InitWith(Layouts, MaxSlides, {0}, CloneSpvSet) /\ thumb = NoThumb /\ clock = -1

DoUpdateWide ==
  \E nc \in NextConfigs, css \in CloneSpvSet :
    InstallSlider(Update(World, nc, css), "update", 0)

DoRefreshWide ==
  \E css \in CloneSpvSet : InstallSlider(Refresh(World, css), "refresh", 0)

NextClones ==
  \/ DoGoTo \/ DoUpdateWide \/ DoRefreshWide \/ DoAdd \/ DoRemove \/ DoDestroy

SpecClones == InitClones /\ [][NextClones]_vars

\* the call of createSlider itself, on containers with and without a track,
\* with no slide, and with clones an earlier instance left behind
LeftClones == {NoClones, [before |-> <<CloneOf(0)>>, after |-> <<CloneOf(0)>>]}

InitCreate ==
  /\ \E h \in Layouts, hasTrack \in BOOLEAN, n \in 0 .. MaxSlides, left \in LeftClones :
       /\ hasTrack \/ (n = 0 /\ left = NoClones)
       /\ LET C == Container(h, hasTrack, n, left)
          IN /\ host = C.host
             /\ slideCount = C.slideCount
             /\ config = C.config
             /\ state = C.state
             /\ cloneSets = C.cloneSets
             /\ clones = C.clones
             /\ teleportTimer = C.teleportTimer
             /\ scrollEndTimer = C.scrollEndTimer
             /\ dragListeners = C.dragListeners
             /\ keyboardListeners = C.keyboardListeners
             /\ scrollPos = C.scrollPos
             /\ drag = C.drag
  /\ last = [op |-> "container", arg |-> 0, prevIndex |-> 0, travel |-> 0,
             events |-> <<>>, cmds |-> <<>>, error |-> ""]
  /\ thumb = NoThumb
  /\ clock = -1

CreateSliderCall ==
  /\ last.op = "container"
  /\ \E lp \in BOOLEAN, draggable \in BOOLEAN, css \in CloneSpvSet :
       InstallSlider(CreateSlider(World, [loop |-> lp, perMove |-> 0,
                                          draggable |-> draggable], css),
                     "createSlider", 0)

NextCreate == CreateSliderCall

SpecCreate == InitCreate /\ [][NextCreate]_vars

\* destroy() called on a slider in use, with passive listeners and with a
\* 'destroy' listener that calls destroy() itself (arg 1)
DoDestroyReentrant == InstallSlider(DestroyReentrant(World, MaxStack), "destroy", 1)

NextDestroy ==
  \/ DoGoTo \/ DoNext \/ UserScroll \/ ScrollSettle \/ TeleportTimeout
  \/ DoDestroy \/ DoDestroyReentrant

SpecDestroy == Init /\ [][NextDestroy]_vars

TypeOK ==
  /\ slideCount \in 0 .. MaxSlides
  /\ state.currentIndex \in Int
  /\ scrollPos \in 0 .. MaxScroll(World)

---------------------------------------------------------------------------
(* Properties of the slider instance *)

ApiOps == {"next", "prev", "goTo", "update", "refresh", "add", "remove"}

\* the index normalisation the documentation states: clamping without loop,
\* the mathematical modulus with loop
Normalized(i) ==
  IF IsLoopEnabled(World) THEN i % slideCount
  ELSE Max(0, Min(i, GetMaxIndex(World)))

\* C1: after destroy() has returned, a later next(), prev(), goTo(i),
\* update(cfg), refresh(), add() or remove() leaves the instance state
\* unchanged: index, config, loop mode, clone sets, registered listeners,
\* timers.
C1_DestroyedIsInert ==
  [][(state.isDestroyed /\ last'.op \in ApiOps)
       => UNCHANGED <<slideCount, config, state, cloneSets, teleportTimer,
                      scrollEndTimer, dragListeners, keyboardListeners>>]_vars

\* update() after destroy() has registered the drag and keyboard listeners again
C1_Witness ==
  /\ state.isDestroyed
  /\ last.op = "update"
  /\ dragListeners
  /\ keyboardListeners

C3_GoToNormalizes ==
  (last.op = "goTo" /\ ~state.isDestroyed /\ state.slideWidthPx > 0)
    => state.currentIndex = Normalized(last.arg)

\* goTo with a negative argument wrapped in loop mode
C3_Witness ==
  /\ last.op = "goTo"
  /\ ~state.isDestroyed
  /\ state.slideWidthPx > 0
  /\ IsLoopEnabled(World)
  /\ last.arg < 0
  /\ state.currentIndex = slideCount - 1

\* C4: next() and prev() move currentIndex by the effective perMove (perMove
\* if > 0, else 1) under goTo's normalisation: clamped to [0, maxIndex]
\* without loop, wrapped modulo slideCount with loop.
C4_NextPrevByPerMove ==
  LET pm == IF config.perMove > 0 THEN config.perMove ELSE 1 IN
  /\ (last.op = "next" /\ ~state.isDestroyed /\ state.slideWidthPx > 0)
       => state.currentIndex = Normalized(last.prevIndex + pm)
  /\ (last.op = "prev" /\ ~state.isDestroyed /\ state.slideWidthPx > 0)
       => state.currentIndex = Normalized(last.prevIndex - pm)

\* next() at the last slide of a looping slider with perMove 2: index 1
C4_Witness ==
  /\ last.op = "next"
  /\ ~state.isDestroyed
  /\ IsLoopEnabled(World)
  /\ config.perMove = 2
  /\ slideCount = MaxSlides
  /\ last.prevIndex = slideCount - 1
  /\ state.currentIndex = 1

\* C5: a goTo issued while loop mode is active commands one scroll whose
\* distance from the scroll position at the call is at most slideCount / 2
\* slide sizes.
C5_ShortestPath ==
  (last.op = "goTo" /\ state.loopModeActive /\ Len(last.cmds) > 0)
    => /\ Len(last.cmds) = 1
       /\ 2 * Abs(last.travel) <= slideCount * state.slideWidthPx

\* a goTo to the index the clone band under the viewport already shows scrolls
\* a whole section, back to the real window
C5_Witness ==
  /\ last.op = "goTo"
  /\ state.loopModeActive
  /\ Len(last.cmds) = 1
  /\ Abs(last.travel) = slideCount * state.slideWidthPx
  /\ last.cmds[1] = GetLoopRealStart(World) + state.currentIndex * state.slideWidthPx

InRange(i) ==
  /\ 0 <= i
  /\ IF state.loopModeActive THEN i < slideCount ELSE i <= GetMaxIndex(World)

\* C9: after a drag release on a live instance with a measured slide size, the
\* landing index
\* stored in currentIndex and reported by dragEnd is in [0, maxIndex] when loop
\* mode is inactive and in [0, slideCount) when it is active, for every
\* release velocity and scroll position.
C9_ReleaseInRange ==
  (last.op = "pointerUp" /\ ~state.isDestroyed /\ state.slideWidthPx > 0)
    => /\ InRange(state.currentIndex)
       /\ \A k \in 1 .. Len(last.events) :
            last.events[k].type = "dragEnd"
              => (last.events[k].index = state.currentIndex
                  /\ InRange(last.events[k].index))

\* a throw far past the end of a looping track lands on a slide of the set
C9_Witness ==
  /\ last.op = "pointerUp"
  /\ last.arg = 1000
  /\ state.loopModeActive
  /\ state.slideWidthPx > 0
  /\ \E k \in 1 .. Len(last.events) :
       /\ last.events[k].type = "dragEnd"
       /\ last.events[k].index = state.currentIndex
  /\ state.currentIndex \in 0 .. slideCount - 1

\* the events of one type among the events a handler emitted
EventsOf(events, type) == SelectSeq(events, LAMBDA e : e.type = type)

C15_NoTimerAfterDestroy ==
  /\ [](state.isDestroyed => (~scrollEndTimer /\ ~teleportTimer /\ ~drag.moveRaf))
  /\ [][state.isDestroyed
          => last'.op \notin {"scrollSettle", "teleport", "dragFrame"}]_vars

\* destroy() during a drag: the frame a pointer move requested has run on the
\* destroyed instance and has written the scroll position
C15_Witness ==
  /\ state.isDestroyed
  /\ ~dragListeners
  /\ drag.open
  /\ last.op = "dragFrame"
  /\ last.cmds # <<>>

\* the scroll position is in the real window, up to the teleport tolerance
InRealWindow ==
  /\ scrollPos >= GetLoopRealStart(World) - TELEPORT_TOLERANCE
  /\ scrollPos < GetLoopRealEnd(World) + TELEPORT_TOLERANCE

\* C17: in active loop mode, whatever scroll events, goTo/next/prev calls and
\* drag releases came before, once only timers fire any more the scroll
\* position comes to lie in [realStart - 2, realEnd + 2) and stays there; a
\* teleport is pending whenever the position is outside it.
C17_TeleportBringsBack ==
  /\ []((state.loopModeActive /\ ~InRealWindow) => teleportTimer)
  /\ (<>[][last'.op \in {"teleport", "scrollSettle"}]_vars)
       => <>[](state.loopModeActive => InRealWindow)

\* the teleport timeout has brought a position left in a clone band back into
\* the real window
C17_Witness ==
  /\ state.loopModeActive
  /\ last.op = "teleport"
  /\ last.cmds # <<>>
  /\ InRealWindow

ClonedBand(sets, n) ==
  [k \in 1 .. sets * n |-> [slide |-> (k - 1) % n, indexAttr |-> NoIndexAttr]]

\* C19: whenever loop mode is active the track holds, on each side of the
\* slides, exactly cloneSets * slideCount clones, where cloneSets is
\* max(3, ceil((ceil(slidesPerView) + 2) / slideCount)); each band repeats the
\* slides in order and no clone carries a logical-index tag; whenever loop
\* mode is inactive the track holds no clone, so setting the loop up again
\* never accumulates clones
C19_CloneBands ==
  IF state.loopModeActive
    THEN /\ cloneSets = Max(3, CeilDiv((config.slidesPerView2 + 1) \div 2 + 2, slideCount))
         /\ clones.before = ClonedBand(cloneSets, slideCount)
         /\ clones.after = ClonedBand(cloneSets, slideCount)
  ELSE clones.before = <<>> /\ clones.after = <<>>

\* update or refresh has set the loop up with more clone sets than the minimum
C19_Witness ==
  /\ last.op \in {"update", "refresh"}
  /\ state.loopModeActive
  /\ cloneSets > MIN_CLONE_SETS
  /\ Len(clones.before) = cloneSets * slideCount

\* the scroll position a handler commanded last: the target of its smooth scroll
LastCommand == last.cmds[Len(last.cmds)]

\* the largest scroll position of a track of real slides and clones
TrackExtent ==
  (2 * cloneSets + 1) * slideCount * state.slideWidthPx - GetViewportSize(World)

\* C20: in active loop mode every scroll position commanded by a drag release
\* or by a next()/goTo() step lies in
\* [0, (2*cloneSets+1) * slideCount * slideSize - viewportSize], for every
\* release velocity and every number of commands issued before a teleport fires
C20_CommandsWithinTrack ==
  (state.loopModeActive /\ last.op \in {"pointerUp", "goTo", "next"} /\ last.cmds # <<>>)
    => LastCommand \in 0 .. TrackExtent

\* a drag released with momentum, and a next() while a teleport is pending,
\* each commanding a position in loop mode
C20_Witness ==
  /\ state.loopModeActive
  /\ last.cmds # <<>>
  /\ \/ last.op = "pointerUp" /\ last.arg # 0
     \/ last.op = "next" /\ teleportTimer

\* C21: createSlider raises an error to the caller when the container has no
\* track element or the track has no slide that is not a clone, and then it
\* registers no listener, tags no element, attaches no instance to the
\* container and schedules nothing; on every other container it raises none
C21_CreateSliderFailsFast ==
  [][last.op = "container" =>
       IF ~host.track \/ slideCount = 0
         THEN /\ last'.error # ""
              /\ ~dragListeners' /\ ~keyboardListeners'
              /\ ~host'.indexed /\ ~host'.aeroSlider
              /\ ~teleportTimer' /\ ~scrollEndTimer'
              /\ last'.events = <<>> /\ last'.cmds = <<>>
              /\ clones' = clones
       ELSE last'.error = "" /\ host'.aeroSlider /\ host'.indexed]_vars

\* createSlider has raised its error: on a container without a track, or on a
\* track that holds nothing but clones
C21_Witness ==
  /\ last.op = "createSlider"
  /\ last.error # ""
  /\ host.track => (slideCount = 0 /\ clones # NoClones)

\* C24: destroy() takes effect exactly once per instance: the first call
\* emits exactly one 'destroy' event and releases the listeners and timers,
\* and every later call, a re-entrant destroy() made from inside a 'destroy'
\* listener included, is a no-op that emits nothing and terminates
C24_DestroyOnce ==
  [][last'.op = "destroy" =>
       /\ last'.error = ""
       /\ IF state.isDestroyed
            THEN /\ last'.events = <<>>
                 /\ UNCHANGED <<host, slideCount, config, state, cloneSets, clones,
                                teleportTimer, scrollEndTimer, dragListeners,
                                keyboardListeners, scrollPos, drag>>
          ELSE /\ Len(EventsOf(last'.events, "destroy")) = 1
               /\ state'.isDestroyed
               /\ ~dragListeners' /\ ~keyboardListeners'
               /\ ~teleportTimer' /\ ~scrollEndTimer'
               /\ ~host'.aeroSlider]_vars

\* destroy() has been called with a 'destroy' listener that calls destroy()
C24_Witness ==
  /\ last.op = "destroy"
  /\ last.arg = 1
  /\ Len(EventsOf(last.events, "destroy")) > 1

\* the steps in which nothing but the handling of a scroll event can move the
\* index: a native scroll, a frame or a move of a drag, a teleport
ScrollEventOps == {"scroll", "dragFrame", "pointerMove", "teleport"}

\* C26: while isProgrammaticScroll or isDragging is true, scroll events (the
\* per-frame index sync) never change currentIndex and never emit
\* slideChange; the recomputation of the index from the scroll position
\* resumes only after the scroll-settle timer has cleared
\* isProgrammaticScroll (destroy() clears it as well, and removes the scroll
\* listener with it)
C26_SuppressedWhileProgrammatic ==
  /\ [][(last'.op \in ScrollEventOps /\ (state.isProgrammaticScroll \/ state.isDragging))
         => /\ state'.currentIndex = state.currentIndex
            /\ EventsOf(last'.events, "slideChange") = <<>>]_vars
  /\ [][(state.isProgrammaticScroll /\ ~state'.isProgrammaticScroll)
         => (last'.op = "scrollSettle" \/ (last'.op = "destroy" /\ state'.isDestroyed))]_vars

\* a native scroll has moved a track without loop to another slide during a
\* programmatic scroll: the index is the one goTo set
C26_Witness ==
  /\ last.op = "scroll"
  /\ state.isProgrammaticScroll
  /\ ~state.loopModeActive
  /\ scrollEndTimer
  /\ GetIndexFromScrollPos(World, scrollPos) # state.currentIndex

---------------------------------------------------------------------------
(* The position translator and the loop index recovery as functions, over    *)
(* wider layouts (slides of 8 and 12 px, with and without a gap, up to       *)
(* MaxSpv2 / 2 slides per view): each action applies one of them to an       *)
(* input of a newly created slider and records the result in last.           *)

MaxMathSlides == 5

MaxSpv2 == 7

\* how many section widths a position is shifted by, either way
MaxShift == 3

MathLayouts == {[w |-> 8, gap |-> 0], [w |-> 8, gap |-> 4], [w |-> 12, gap |-> 4]}

MathSpvSet == 2 .. MaxSpv2

InitMath ==
  /\ InitWith(MathLayouts, MaxMathSlides, {0}, MathSpvSet)
  /\ thumb = NoThumb
  /\ clock = -1

Unchanged ==
  UNCHANGED <<host, slideCount, config, state, cloneSets, clones, teleportTimer,
              scrollEndTimer, dragListeners, keyboardListeners, scrollPos, drag,
              thumb, clock>>

\* getLoopIndexFromScroll() at a position of the track, and at that position
\* shifted by k sections
ApplyLoopIndex ==
  /\ last.op = "createSlider"
  /\ state.loopModeActive
  /\ \E pos \in 0 .. MaxScroll(World), k \in (0 - MaxShift) .. MaxShift :
       /\ k # 0
       /\ last' = [op |-> "getLoopIndexFromScroll", arg |-> pos, k |-> k,
                   out |-> LoopIndexAt(World, pos),
                   shifted |-> LoopIndexAt(World,
                                 pos + k * slideCount * state.slideWidthPx)]
  /\ Unchanged

\* getScrollPosForIndex(i) for a valid index, and getIndexFromScrollPos of it
ApplyRoundTrip ==
  /\ last.op = "createSlider"
  /\ ~state.loopModeActive
  /\ \E i \in 0 .. GetMaxIndex(World) :
       LET pos == GetScrollPosForIndex(World, i) IN
       last' = [op |-> "getScrollPosForIndex", arg |-> i, pos |-> pos,
                out |-> GetIndexFromScrollPos(World, pos)]
  /\ Unchanged

\* teleportIfNeeded() at a position of the track, the slide size measured or
\* (the slider hidden) 0
ApplyTeleport ==
  /\ last.op = "createSlider"
  /\ \E pos \in 0 .. MaxScroll(World), measured \in BOOLEAN :
       LET W == [World EXCEPT !.scrollPos = pos,
                              !.state.slideWidthPx = IF measured THEN @ ELSE 0]
       IN last' = [op |-> "teleportIfNeeded", arg |-> pos, measured |-> measured,
                   out |-> TeleportIfNeeded(W).scrollPos]
  /\ Unchanged

\* getMaxIndex() of a slider that holds n slides
ApplyMaxIndex ==
  /\ last.op = "createSlider"
  /\ \E n \in 0 .. MaxMathSlides :
       last' = [op |-> "getMaxIndex", arg |-> n,
                out |-> GetMaxIndex([World EXCEPT !.slideCount = n])]
  /\ Unchanged

NextMath == ApplyLoopIndex \/ ApplyRoundTrip \/ ApplyTeleport \/ ApplyMaxIndex

SpecMath == InitMath /\ [][NextMath]_vars

\* C6: in loop mode the index recovered from the scroll position is in
\* [0, slideCount) and is the same when a whole multiple (positive or
\* negative) of slideCount * slideSize is added to the position, in integer
\* and fractional views.
C6_LoopIndexPeriodic ==
  last.op = "getLoopIndexFromScroll"
    => /\ last.out \in 0 .. slideCount - 1
       /\ last.shifted = last.out

\* a position in a clone band of a fractional view, shifted backwards
C6_Witness ==
  /\ last.op = "getLoopIndexFromScroll"
  /\ IsFractionalView(World)
  /\ last.arg < GetLoopRealStart(World) - state.slideWidthPx
  /\ last.k < 0
  /\ last.out = slideCount - 1
  /\ last.shifted = last.out

\* C7: in every non-loop configuration and for every index i in
\* [0, maxIndex], getIndexFromScrollPos(getScrollPosForIndex(i)) = i.
C7_RoundTrip ==
  last.op = "getScrollPosForIndex" => last.out = last.arg

\* a fractional view wider than its slides: index 1 comes back as 0
C7_Witness ==
  /\ last.op = "getScrollPosForIndex"
  /\ IsFractionalView(World)
  /\ host.w = 12
  /\ slideCount = 2
  /\ last.arg = 1
  /\ last.out = 0

\* C8: in a non-loop fractional view the position for index maxIndex is
\* trackScrollSize - viewportSize, for index 0 it is 0, and for every index
\* strictly between it is index * slideSize + slideVisualSize / 2
\* - viewportSize / 2.
C8_FlushEnds ==
  (last.op = "getScrollPosForIndex" /\ IsFractionalView(World))
    => IF last.arg = 0 THEN last.pos = 0
       ELSE IF last.arg = GetMaxIndex(World)
         THEN last.pos = GetTrackScrollSize(World) - GetViewportSize(World)
       ELSE 2 * last.pos
              = 2 * last.arg * state.slideWidthPx + (state.slideWidthPx - host.gap)
                  - GetViewportSize(World)

\* 2.5 slides per view, 5 slides: the last index is flush with the track's end,
\* which is not where the centred formula puts it
C8_Witness ==
  /\ last.op = "getScrollPosForIndex"
  /\ config.slidesPerView2 = 5
  /\ slideCount = MaxMathSlides
  /\ last.arg = GetMaxIndex(World)
  /\ last.pos = GetTrackScrollSize(World) - GetViewportSize(World)
  /\ last.pos > 0
  /\ last.pos # last.arg * state.slideWidthPx + CenterOffset(World, state.slideWidthPx)

\* C16: teleportIfNeeded in active loop mode with a measured slide size moves
\* a position p outside [realStart - 2, realEnd + 2) to p' in
\* [realStart, realEnd) with p' - p a whole multiple of slideCount * slideSize;
\* a position inside that band, an inactive loop mode or a slide size of 0
\* leaves the position as it is.
C16_TeleportIntoWindow ==
  last.op = "teleportIfNeeded"
    => LET p == last.arg
           q == last.out
           realStart == GetLoopRealStart(World)
           realEnd == GetLoopRealEnd(World)
       IN IF /\ state.loopModeActive
             /\ last.measured
             /\ (p < realStart - TELEPORT_TOLERANCE \/ p >= realEnd + TELEPORT_TOLERANCE)
            THEN /\ realStart <= q
                 /\ q < realEnd
                 /\ (q - p) % (slideCount * state.slideWidthPx) = 0
          ELSE q = p

\* a position two sections before the real window comes back into it
C16_Witness ==
  /\ last.op = "teleportIfNeeded"
  /\ state.loopModeActive
  /\ last.measured
  /\ last.arg < GetLoopRealStart(World) - slideCount * state.slideWidthPx
  /\ last.out - last.arg = 2 * slideCount * state.slideWidthPx
  /\ last.out >= GetLoopRealStart(World)
  /\ last.out < GetLoopRealEnd(World)

\* C23 as stated: getMaxIndex returns slideCount - 1 for every fractional
\* slidesPerView and slideCount - slidesPerView for every integer
\* slidesPerView, never less than 0, and 0 whenever slidesPerView >= slideCount
C23_MaxIndexZeroWhenWide ==
  last.op = "getMaxIndex"
    => LET n == last.arg
           spv2 == config.slidesPerView2
       IN /\ last.out >= 0
          /\ spv2 % 2 = 1 => last.out = Max(0, n - 1)
          /\ spv2 % 2 = 0 => last.out = Max(0, (2 * n - spv2) \div 2)
          /\ spv2 >= 2 * n => last.out = 0

\* C23: getMaxIndex returns slideCount - 1 for every fractional slidesPerView
\* and slideCount - slidesPerView for every integer slidesPerView, never less
\* than 0: 0 for an integer slidesPerView >= slideCount, and 0 without slides
C23_MaxIndex ==
  last.op = "getMaxIndex"
    => LET n == last.arg
           spv2 == config.slidesPerView2
       IN /\ last.out >= 0
          /\ spv2 % 2 = 1 => last.out = (IF n = 0 THEN 0 ELSE n - 1)
          /\ spv2 % 2 = 0 => last.out = (IF spv2 >= 2 * n THEN 0 ELSE (2 * n - spv2) \div 2)

\* a fractional view wider than the slides it shows: every slide is reachable
C23_Witness ==
  /\ last.op = "getMaxIndex"
  /\ config.slidesPerView2 % 2 = 1
  /\ config.slidesPerView2 > 2 * last.arg
  /\ last.out = last.arg - 1
  /\ last.out > 0

\* navigation without loop over the wider layouts: up to MaxMathSlides slides
\* of 8 and 12 px, up to MaxSpv2 / 2 slides per view
InitNavWide == InitMath /\ ~config.loop

NextNavWide == DoGoTo \/ DoNext \/ DoPrev \/ UserScroll \/ ScrollSettle

SpecNavWide == InitNavWide /\ [][NextNavWide]_vars

\* C25: in non-loop mode, for every index i in [0, maxIndex], in integer and
\* fractional views of any size, goTo(i) followed by the host scrolling to
\* the commanded position, clamped to the scrollable range, and the scroll
\* settling leaves currentIndex = i
C25_GoToThenSettle ==
  [][(/\ last.op = "goTo"
      /\ last'.op = "scrollSettle"
      /\ ~state.loopModeActive
      /\ last.arg \in 0 .. GetMaxIndex(World))
       => state'.currentIndex = last.arg]_vars

\* a fractional view has settled on a slide strictly between its ends
C25_Witness ==
  /\ last.op = "scrollSettle"
  /\ ~state.loopModeActive
  /\ IsFractionalView(World)
  /\ state.currentIndex > 0
  /\ state.currentIndex < GetMaxIndex(World)
  /\ scrollPos = GetScrollPosForIndex(World, state.currentIndex)

---------------------------------------------------------------------------
(* Thumbnail synchronisation (sync.ts): the closure syncThumbnails creates   *)
(* around a primary slider.  Time advances in steps of the debounce          *)
(* interval; a timer holds the milliseconds left until it fires, and a due   *)
(* timer fires before time advances further.  The rail stays in the page     *)
(* after the teardown: it can still be clicked, and time goes on.            *)

NoTimer == -1

NoTarget == -1

\* how long the clock keeps counting, in steps
MaxClockSteps == 7

Step == THUMB_UPDATE_DEBOUNCE_MS

\* an instance between two handlers: nothing written, emitted or commanded
Settled(W) ==
  [W EXCEPT !.moved = FALSE, !.events = <<>>, !.cmds = <<>>, !.calls = <<>>,
            !.shown = FALSE]

\* children of the thumbnail rail: its slides, and the clones on both sides
\* while the rail is in loop mode
ThumbChildren(T) == TrackChildren(T.inst)

\* firstOriginalIndex: where the rail's first slide stands among its children
ThumbFirstOriginalIndex(T) ==
  IF T.inst.state.loopModeActive THEN T.inst.cloneSets * T.slideCount ELSE 0

\* getLogicalIndex of the rail's child at domIndex
GetLogicalIndex(T, domIndex) ==
  LET first == ThumbFirstOriginalIndex(T) IN
  IF domIndex >= first /\ domIndex < first + T.slideCount THEN domIndex - first
  ELSE IF domIndex < first THEN JsRem(domIndex, T.slideCount)
  ELSE JsRem(domIndex - first - T.slideCount, T.slideCount)

\* options?.loop ?? true
ThumbLoopOption(options) == IF "loop" \in DOMAIN options THEN options.loop ELSE TRUE

\* syncThumbnails(primary, thumbnail, options) once it has returned: inst is the
\* thumbnail instance after its update, handlers the click listeners on the
\* rail's children, listening the slideChange listener the primary holds;
\* options, heard (the index of the last slideChange the listener received)
\* and torn (the returned function has run) are kept for the properties
\* a rail without a track gets the bind that does nothing: () => {}
SyncThumbnails(W, TW, options) ==
  IF ~TW.host.track
    THEN [bound |-> TRUE, inst |-> TW, options |-> options,
          slideCount |-> 0,
          handlers |-> FALSE, listening |-> FALSE,
          clickTarget |-> NoTarget, stableTimer |-> NoTimer,
          updateTimer |-> NoTimer, updateTimeouts |-> 0, updateIndex |-> 0,
          active |-> NoTarget,
          heard |-> NoTarget, torn |-> FALSE]
  ELSE
    LET loop == ThumbLoopOption(options)
        TW1 == DispatchScroll(Update(TW, [draggable |-> FALSE, loop |-> loop],
                                     TW.config.slidesPerView2))
    IN [bound |-> TRUE, inst |-> Settled(TW1), options |-> options,
        slideCount |-> TW1.slideCount,
        handlers |-> TrackChildren(TW1) > 0, listening |-> TRUE,
        clickTarget |-> NoTarget, stableTimer |-> NoTimer,
        updateTimer |-> NoTimer, updateTimeouts |-> 0, updateIndex |-> 0,
        active |-> IF TrackChildren(TW1) > 0 THEN W.state.currentIndex ELSE NoTarget,
        heard |-> NoTarget, torn |-> FALSE]

\* clearTimeout(thumbUpdateTimer), called when the handle is not null:
\* updateTimeouts counts the debounce timeouts the host holds
ClearThumbUpdate(T) ==
  IF T.updateTimer # NoTimer
    THEN [T EXCEPT !.updateTimer = NoTimer, !.updateTimeouts = @ - 1]
  ELSE T

OnSlideChangeNoClear(T, index) ==
  LET T1 == [T EXCEPT !.heard = index] IN
  IF T1.clickTarget # NoTarget
    THEN IF index = T1.clickTarget
           THEN [T1 EXCEPT !.stableTimer = THUMB_ARRIVAL_STABLE_MS]
         ELSE [T1 EXCEPT !.stableTimer = NoTimer]
  ELSE [T1 EXCEPT !.updateTimer = THUMB_UPDATE_DEBOUNCE_MS,
                  !.updateTimeouts = @ + 1, !.updateIndex = index]

OnSlideChange(T, index) ==
  LET T1 == [T EXCEPT !.heard = index] IN
  IF T1.clickTarget # NoTarget
    THEN IF index = T1.clickTarget
           THEN [T1 EXCEPT !.stableTimer = THUMB_ARRIVAL_STABLE_MS]
         ELSE [T1 EXCEPT !.stableTimer = NoTimer]
  ELSE [ClearThumbUpdate(T1) EXCEPT
          !.updateTimer = THUMB_UPDATE_DEBOUNCE_MS,
          !.updateTimeouts = @ + 1, !.updateIndex = index]

\* the primary's emit(): the slideChange events of a handler reach the listener
\* in order, while it is registered
RECURSIVE Deliver(_, _)
Deliver(T, events) ==
  IF events = <<>> \/ ~T.listening THEN T
  ELSE Deliver(IF Head(events).type = "slideChange"
                 THEN OnSlideChange(T, Head(events).index)
               ELSE T,
               Tail(events))

\* the click handler of a thumbnail, up to its call of primary.goTo
OnThumbClick(T, i) == [T EXCEPT !.clickTarget = i, !.active = i]

\* the callback of arrivalStableTimer
OnArrivalStable(T) == [T EXCEPT !.stableTimer = NoTimer, !.clickTarget = NoTarget]

\* the callback of thumbUpdateTimer
OnThumbUpdate(T) ==
  [T EXCEPT !.updateTimer = NoTimer, !.updateTimeouts = @ - 1,
            !.active = T.updateIndex]

SyncTeardownKeepTimers(T) ==
  [T EXCEPT !.clickTarget = NoTarget, !.handlers = FALSE, !.active = NoTarget,
            !.listening = FALSE]

\* the function syncThumbnails returns
SyncTeardown(T) ==
  [ClearThumbUpdate(T) EXCEPT
     !.stableTimer = NoTimer,
     !.clickTarget = NoTarget, !.handlers = FALSE, !.active = NoTarget,
     !.listening = FALSE]

\* the primary holds the pending click target
Held(T, index) == T.clickTarget # NoTarget /\ index = T.clickTarget

\* the time for which the primary has held the pending click target since the
\* click that set it: a click starts it again, losing the target ends it
ClockAfter(T, index, clicked) ==
  IF ~Held(T, index) THEN -1
  ELSE IF clicked \/ ~Held(thumb, state.currentIndex)
            \/ T.clickTarget # thumb.clickTarget THEN 0
  ELSE clock

\* a handler of the primary runs, and the listener hears what it emitted
InstallSync(V, op, arg) ==
  /\ Install(V, op, arg)
  /\ thumb' = Deliver(thumb, last'.events)
  /\ clock' = ClockAfter(thumb', state'.currentIndex, FALSE)

\* --slides-per-view of the primary, doubled: 1 and 2
SyncSpvSet == {2, 4}

\* the options syncThumbnails is called with: none
SyncOptions == {EmptyConfig}

\* the thumbnail slider at the call: as many slides as the primary, one per view
ThumbnailOf(W, lp, draggable, cssSpv2) ==
  Settled(DispatchScroll(
    CreateSlider(Container(W.host, TRUE, W.slideCount, NoClones),
                 [loop |-> lp, perMove |-> 0, draggable |-> draggable], cssSpv2)))

\* positions a native scroll of the primary comes to rest at: a swipe moves the
\* track by one slide
SyncScrollStops(W) ==
  {p \in {W.scrollPos - W.host.w, W.scrollPos + W.host.w} :
     p >= 0 /\ p <= MaxScroll(W)}

InitSync ==
  /\ InitWith(Layouts, MaxSlides, {0}, SyncSpvSet)
  /\ \E options \in SyncOptions :
       thumb = SyncThumbnails(World, ThumbnailOf(World, FALSE, TRUE, 2), options)
  /\ clock = -1

\* a click on a child of the rail: its handler runs while it is attached
ThumbClick ==
  /\ thumb.bound
  /\ \E i \in {GetLogicalIndex(thumb, d) : d \in 0 .. ThumbChildren(thumb) - 1} :
       LET T1 == IF thumb.handlers THEN OnThumbClick(thumb, i) ELSE thumb
           V == IF thumb.handlers THEN GoTo(World, i) ELSE World
       IN /\ Install(V, "thumbClick", i)
          /\ thumb' = Deliver(T1, last'.events)
          /\ clock' = ClockAfter(thumb', state'.currentIndex, thumb.handlers)

\* the primary's arrows, keys or autoplay, the pointer being free
PrimaryNext ==
  /\ ~drag.open
  /\ InstallSync(NextSlide(World), "next", 0)

PrimaryPrev ==
  /\ ~drag.open
  /\ InstallSync(PrevSlide(World), "prev", 0)

PrimaryScroll ==
  \E p \in SyncScrollStops(World) :
    /\ p # scrollPos
    /\ InstallSync([World EXCEPT !.scrollPos = p, !.moved = TRUE], "scroll", 0)

PrimaryScrollSettle ==
  /\ scrollEndTimer
  /\ InstallSync(OnScrollSettle(World), "scrollSettle", 0)

PrimaryTeleport ==
  /\ teleportTimer
  /\ InstallSync(TeleportIfNeeded([World EXCEPT !.teleportTimer = FALSE]),
                 "teleport", 0)

UnchangedPrimary ==
  UNCHANGED <<host, slideCount, config, state, cloneSets, clones, teleportTimer,
              scrollEndTimer, dragListeners, keyboardListeners, scrollPos, drag>>

ArrivalStableTimeout ==
  /\ thumb.bound
  /\ thumb.stableTimer = 0
  /\ thumb' = OnArrivalStable(thumb)
  /\ clock' = -1
  /\ last' = [op |-> "arrivalStable", arg |-> 0, prevIndex |-> 0, travel |-> 0,
              events |-> <<>>, cmds |-> <<>>]
  /\ UnchangedPrimary

ThumbUpdateTimeout ==
  /\ thumb.bound
  /\ thumb.updateTimer = 0
  /\ thumb' = OnThumbUpdate(thumb)
  /\ last' = [op |-> "thumbUpdate", arg |-> 0, prevIndex |-> 0, travel |-> 0,
              events |-> <<>>, cmds |-> <<>>]
  /\ UNCHANGED clock
  /\ UnchangedPrimary

Teardown ==
  /\ thumb.bound
  /\ ~thumb.torn
  /\ thumb' = [SyncTeardown(thumb) EXCEPT !.torn = TRUE]
  /\ clock' = -1
  /\ last' = [op |-> "teardown", arg |-> 0, prevIndex |-> 0, travel |-> 0,
              events |-> <<>>, cmds |-> <<>>]
  /\ UnchangedPrimary

\* Step milliseconds pass, no timer being due
Tick ==
  /\ thumb.bound
  /\ thumb.stableTimer # 0
  /\ thumb.updateTimer # 0
  /\ thumb' = [thumb EXCEPT
                 !.stableTimer = IF @ = NoTimer THEN NoTimer ELSE Max(0, @ - Step),
                 !.updateTimer = IF @ = NoTimer THEN NoTimer ELSE Max(0, @ - Step)]
  /\ clock' = IF clock < 0 THEN clock ELSE Min(clock + Step, MaxClockSteps * Step)
  /\ last' = [op |-> "tick", arg |-> 0, prevIndex |-> 0, travel |-> 0,
              events |-> <<>>, cmds |-> <<>>]
  /\ UnchangedPrimary

NextSync ==
  \/ ThumbClick \/ PrimaryNext \/ PrimaryPrev \/ PrimaryScroll
  \/ PrimaryScrollSettle \/ PrimaryTeleport
  \/ ArrivalStableTimeout \/ ThumbUpdateTimeout \/ Teardown \/ Tick

SpecSync == InitSync /\ [][NextSync]_vars

\* C10: whenever a thumbnail click has set a pending click target and the
\* primary's currentIndex is that target and stays it, the pending target is
\* cleared within THUMB_ARRIVAL_STABLE_MS + THUMB_UPDATE_DEBOUNCE_MS.
C10_PendingClears ==
  (thumb.bound /\ Held(thumb, state.currentIndex))
    => clock <= THUMB_ARRIVAL_STABLE_MS + THUMB_UPDATE_DEBOUNCE_MS

\* the thumbnail of the slide the primary already shows was clicked: no
\* slideChange followed, no timer runs, and the target is still pending
C10_Witness ==
  /\ thumb.bound
  /\ Held(thumb, state.currentIndex)
  /\ thumb.stableTimer = NoTimer
  /\ clock > THUMB_ARRIVAL_STABLE_MS + THUMB_UPDATE_DEBOUNCE_MS

\* the slideChange events among the events a handler emitted
Changes(events) == SelectSeq(events, LAMBDA e : e.type = "slideChange")

\* C11: the pending click target is cleared only by the stability timer or by
\* the teardown; while the stability timer runs, the last slideChange the
\* listener received reported the pending target; a slideChange of another
\* index cancels the timer, and one of the target's index starts it again at
\* THUMB_ARRIVAL_STABLE_MS.
C11_ClearedOnlyWhenStable ==
  /\ [][(thumb.clickTarget # NoTarget /\ thumb'.clickTarget = NoTarget)
          => last'.op \in {"arrivalStable", "teardown"}]_vars
  /\ [](thumb.stableTimer # NoTimer
          => (thumb.clickTarget # NoTarget /\ thumb.heard = thumb.clickTarget))
  /\ [][(thumb'.listening /\ thumb'.clickTarget # NoTarget
           /\ Changes(last'.events) # <<>>)
          => LET heardLast == Changes(last'.events)[Len(Changes(last'.events))].index
             IN IF heardLast = thumb'.clickTarget
                  THEN thumb'.stableTimer = THUMB_ARRIVAL_STABLE_MS
                ELSE thumb'.stableTimer = NoTimer]_vars

\* the stability timer is due, started by the slideChange of a first click,
\* while the pending target is that of a second click that no slideChange
\* has reported
C11_Witness ==
  /\ thumb.stableTimer = 0
  /\ thumb.clickTarget # NoTarget
  /\ thumb.heard # NoTarget
  /\ thumb.heard # thumb.clickTarget
  /\ state.currentIndex = thumb.heard
  /\ last.op = "tick"

\* C12: once the function syncThumbnails returned has run, a click on a
\* thumbnail no longer reaches primary.goTo, no timer of the closure is pending
\* or fires, no child of the rail carries the active class, the primary does
\* not hold the slideChange listener, and nothing that happens later changes
\* the rail.
C12_TornDownIsInert ==
  /\ [](thumb.torn
          => /\ ~thumb.handlers
             /\ ~thumb.listening
             /\ thumb.stableTimer = NoTimer
             /\ thumb.updateTimer = NoTimer
             /\ thumb.active = NoTarget)
  /\ [][thumb.torn
          => /\ thumb' = thumb
             /\ last'.op \notin {"arrivalStable", "thumbUpdate"}
             /\ (last'.op = "thumbClick"
                   => /\ last'.cmds = <<>>
                      /\ UNCHANGED <<state, scrollPos, teleportTimer, scrollEndTimer>>)]_vars

\* after the teardown the primary has changed slide and the rail has not
\* followed: the debounce timer that was pending at the teardown is gone
C12_Witness ==
  /\ thumb.torn
  /\ last.op \in {"next", "prev", "scroll", "scrollSettle"}
  /\ Changes(last.events) # <<>>
  /\ thumb.updateTimer = NoTimer
  /\ thumb.active = NoTarget

\* C28: from a thumbnail click on index i until the pending click target is
\* cleared, the active thumbnail is i and the debounced update, which sets the
\* highlight and re-centers the rail, does not run.
C28_ClickHoldsHighlight ==
  /\ []((thumb.bound /\ thumb.clickTarget # NoTarget)
          => thumb.active = thumb.clickTarget)
  /\ [][(thumb.bound /\ thumb.clickTarget # NoTarget)
          => last'.op # "thumbUpdate"]_vars

\* a thumbnail was clicked while the debounce timer of an earlier slide change
\* was pending
C28_Witness ==
  /\ last.op = "thumbClick"
  /\ thumb.clickTarget # NoTarget
  /\ thumb.active = thumb.clickTarget
  /\ thumb.updateTimer # NoTimer
  /\ thumb.updateIndex # thumb.clickTarget

---------------------------------------------------------------------------
(* The debounce of the thumbnail update on a finer clock: no thumbnail is    *)
(* clicked, time passes in halves of the debounce interval, and clock is the *)
(* time since the listener last received a slideChange.                      *)

DebounceTickMs == 25

InstallDebounce(V, op, arg) ==
  /\ Install(V, op, arg)
  /\ thumb' = Deliver(thumb, last'.events)
  /\ clock' = IF Changes(last'.events) # <<>> THEN 0 ELSE clock

InitDebounce ==
  /\ InitWith(Layouts, MaxSlides, {0}, SyncSpvSet)
  /\ \E options \in SyncOptions :
       thumb = SyncThumbnails(World, ThumbnailOf(World, FALSE, TRUE, 2), options)
  /\ clock = 0

BurstNext == ~drag.open /\ InstallDebounce(NextSlide(World), "next", 0)

BurstPrev == ~drag.open /\ InstallDebounce(PrevSlide(World), "prev", 0)

BurstScroll ==
  \E p \in SyncScrollStops(World) :
    /\ p # scrollPos
    /\ InstallDebounce([World EXCEPT !.scrollPos = p, !.moved = TRUE], "scroll", 0)

BurstScrollSettle ==
  /\ scrollEndTimer
  /\ InstallDebounce(OnScrollSettle(World), "scrollSettle", 0)

\* DebounceTickMs milliseconds pass while the debounce timer runs
HalfTick ==
  /\ thumb.updateTimer > 0
  /\ thumb' = [thumb EXCEPT !.updateTimer = Max(0, @ - DebounceTickMs)]
  /\ clock' = clock + DebounceTickMs
  /\ last' = [op |-> "tick", arg |-> 0, prevIndex |-> 0, travel |-> 0,
              events |-> <<>>, cmds |-> <<>>]
  /\ UnchangedPrimary

NextDebounce ==
  \/ BurstNext \/ BurstPrev \/ BurstScroll \/ BurstScrollSettle
  \/ HalfTick \/ ThumbUpdateTimeout

SpecDebounce == InitDebounce /\ [][NextDebounce]_vars

\* the index of the last slideChange among the events a handler emitted
LastChange(events) == Changes(events)[Len(Changes(events))].index

\* C29: with no click target pending, every slideChange restarts the debounce
\* timer at 50ms with its own index, the host never holds more than one
\* debounce timeout, and the thumbnail update runs only 50ms after the last
\* slideChange, once, with the index of that slideChange.
C29_DebouncedUpdate ==
  /\ [](/\ thumb.updateTimeouts <= 1
        /\ (thumb.updateTimer # NoTimer <=> thumb.updateTimeouts = 1)
        /\ (thumb.updateTimer # NoTimer
              => /\ thumb.updateTimer = THUMB_UPDATE_DEBOUNCE_MS - clock
                 /\ thumb.updateIndex = thumb.heard))
  /\ [][Changes(last'.events) # <<>>
          => /\ thumb'.updateTimer = THUMB_UPDATE_DEBOUNCE_MS
             /\ thumb'.heard = LastChange(last'.events)]_vars
  /\ [][last'.op = "thumbUpdate"
          => /\ clock = THUMB_UPDATE_DEBOUNCE_MS
             /\ thumb'.active = thumb.heard
             /\ thumb'.updateTimer = NoTimer
             /\ thumb'.updateTimeouts = 0]_vars
  /\ [][thumb'.active # thumb.active => last'.op = "thumbUpdate"]_vars

\* inside a burst: a second slideChange arrived before the update of the
\* first had run, the timer runs again from 50ms and the highlight has not moved
C29_Witness ==
  /\ last.op = "next"
  /\ thumb.heard = 2
  /\ thumb.active = 0
  /\ thumb.updateTimer = THUMB_UPDATE_DEBOUNCE_MS
  /\ thumb.updateTimeouts = 1
  /\ clock = 0

---------------------------------------------------------------------------
(* The bind itself: syncThumbnails called on a primary and a thumbnail       *)
(* slider of any configuration, with and without the loop option.            *)

BindOptions == {EmptyConfig, [loop |-> TRUE], [loop |-> FALSE]}

InitBind ==
  /\ InitWith(Layouts, MaxSlides, {0}, SpvSet)
  /\ \E lp \in BOOLEAN, draggable \in BOOLEAN, css \in SpvSet :
       thumb = [bound |-> FALSE, inst |-> ThumbnailOf(World, lp, draggable, css)]
  /\ clock = -1

Bind ==
  /\ ~thumb.bound
  /\ \E options \in BindOptions :
       thumb' = SyncThumbnails(World, thumb.inst, options)
  /\ clock' = -1
  /\ last' = [op |-> "syncThumbnails", arg |-> 0, prevIndex |-> 0, travel |-> 0,
              events |-> <<>>, cmds |-> <<>>]
  /\ UnchangedPrimary

NextBind == Bind

SpecBind == InitBind /\ [][NextBind]_vars

\* the bind on a rail that has nothing to resolve: a thumbnail slider whose
\* slides have all been removed, or whose track has been taken out of its
\* container
EmptyRailOf(TW, cssSpv2, detached) ==
  IF detached THEN [TW EXCEPT !.host.track = FALSE]
  ELSE Settled(DispatchScroll(Remove(TW, 0 .. TW.slideCount - 1, cssSpv2)))

InitBindEmpty ==
  /\ InitWith(Layouts, MaxSlides, {0}, SpvSet)
  /\ \E lp \in BOOLEAN, draggable \in BOOLEAN, css \in SpvSet, detached \in BOOLEAN :
       \E TW \in {ThumbnailOf(World, lp, draggable, css)} :
         thumb = [bound |-> FALSE, inst |-> EmptyRailOf(TW, css, detached)]
  /\ clock = -1

SpecBindEmpty == InitBindEmpty /\ [][NextBind]_vars

\* the slides a bind can resolve in a rail: the children of its track that
\* carry an index attribute
Resolvable(TW) == IF TW.host.track THEN TW.slideCount ELSE 0

\* C22: syncThumbnails called with a thumbnail rail that has no resolvable
\* slide mutates neither slider (no update() of the thumbnail, no click
\* handler, no slideChange listener on the primary) and returns a teardown
\* that does nothing
C22_EmptyRailIsNoOp ==
  [][(~thumb.bound /\ thumb'.bound /\ Resolvable(thumb.inst) = 0)
       => /\ thumb'.inst = thumb.inst
          /\ ~thumb'.handlers
          /\ ~thumb'.listening
          /\ SyncTeardown(thumb') = thumb']_vars

\* bound to a rail whose track holds no slide
C22_Witness ==
  /\ thumb.bound
  /\ thumb.inst.host.track
  /\ thumb.inst.slideCount = 0
  /\ thumb.listening
  /\ ~thumb.inst.config.draggable


\* C13: after syncThumbnails(primary, thumbnail, options) dragging is disabled
\* on the thumbnail instance, and its loop setting is options.loop when that
\* is given and the primary's loop setting otherwise.
C13_BindSetsThumbnail ==
  thumb.bound
    => /\ ~thumb.inst.config.draggable
       /\ ~thumb.inst.dragListeners
       /\ thumb.inst.config.loop
            = IF "loop" \in DOMAIN thumb.options THEN thumb.options.loop
              ELSE config.loop

\* bound without options to a primary that does not loop: the thumbnail,
\* created without loop, loops
C13_Witness ==
  /\ thumb.bound
  /\ thumb.options = EmptyConfig
  /\ ~config.loop
  /\ thumb.inst.config.loop
  /\ thumb.inst.state.loopModeActive
  /\ ~thumb.inst.config.draggable
  /\ ~thumb.inst.dragListeners

---------------------------------------------------------------------------
(* The children of the track under add(), remove() and refresh(): clock      *)
(* holds track.children in document order, each child with its clone         *)
(* attribute and its data-aero-slider-index attribute                        *)

\* a slide that is not a clone, with the index attribute attr
Slide(attr) == [clone |-> FALSE, indexAttr |-> attr]

LoopClone == [clone |-> TRUE, indexAttr |-> NoIndexAttr]

IsRealChild(el) == ~el.clone

\* Array.from(track.children).filter((el) => !el.hasAttribute(LOOP_CLONE_ATTR))
RealChildren(children) == SelectSeq(children, IsRealChild)

\* how many children that are not clones stand before the k-th child
RankOf(children, k) == Len(RealChildren(SubSeq(children, 1, k - 1)))

\* slides.forEach((slide, i) => slide.setAttribute(SLIDE_INDEX_ATTR, String(i)))
KeepSlideIndexAttrs(children) == children

SetSlideIndexAttrs(children) ==
  [k \in 1 .. Len(children) |->
     IF children[k].clone THEN children[k] ELSE Slide(RankOf(children, k))]

\* setupLoopTrack on the children: the clones removed, then sets * n clones
\* prepended and as many appended
SetupLoopChildren(children, sets, n) ==
  [k \in 1 .. sets * n |-> LoopClone] \o RealChildren(children)
    \o [k \in 1 .. sets * n |-> LoopClone]

\* refresh() on the children; looping tells whether setupLoopTrack ran
RefreshChildren(children, looping, sets) ==
  LET slides == RealChildren(children) IN
  IF Len(slides) = 0 THEN children
  ELSE IF looping THEN SetupLoopChildren(SetSlideIndexAttrs(children), sets, Len(slides))
  ELSE SetSlideIndexAttrs(children)

\* track.insertBefore(slide, ref) for each new slide, ref the at-th child
InsertBefore(children, arr, at) ==
  SubSeq(children, 1, at - 1) \o arr \o SubSeq(children, at, Len(children))

\* the branch of add(): given is FALSE when the index argument is undefined
AddChildren(children, count, given, index) ==
  LET realChildren == RealChildren(children)
      arr == [k \in 1 .. count |-> Slide(NoIndexAttr)]
  IN IF given /\ index < Len(realChildren)
       THEN IF index >= 0
              THEN InsertBefore(children, arr,
                     CHOOSE k \in 1 .. Len(children) :
                       ~children[k].clone /\ RankOf(children, k) = index)
            ELSE children \o arr
     ELSE children \o arr

\* the loop of remove() over the sorted indices: the places in realChildren
\* whose element was removed; removing an element twice changes nothing
RECURSIVE RemovedPlaces(_, _, _)
RemovedPlaces(sorted, n, gone) ==
  IF sorted = <<>> THEN gone
  ELSE RemovedPlaces(Tail(sorted), n,
         IF Head(sorted) >= 0 /\ Head(sorted) < n THEN gone \cup {Head(sorted)}
         ELSE gone)

RemoveChildren(children, indices) ==
  LET gone == RemovedPlaces(indices, Len(RealChildren(children)), {})
      keep == {k \in 1 .. Len(children) :
                 children[k].clone \/ RankOf(children, k) \notin gone}
      RECURSIVE Kept(_)
      Kept(k) == IF k > Len(children) THEN <<>>
                 ELSE IF k \in keep THEN <<children[k]>> \o Kept(k + 1)
                 ELSE Kept(k + 1)
  IN Kept(1)

\* the children after add(), remove() or refresh() ran on the instance V and
\* left it as W; both start with the teardown of an active loop
ChildrenAfter(V, W, children, changed) ==
  IF V.state.isDestroyed THEN children
  ELSE RefreshChildren(changed, W.state.loopModeActive, W.cloneSets)

TornDown(V, children) ==
  IF V.state.loopModeActive THEN RealChildren(children) ELSE children

InstallTrack(V, op, arg) == Install(V, op, arg) /\ UNCHANGED thumb

\* the arrays of indices remove() is given: out of range, and twice the same
RemoveArgs ==
  {<<i>> : i \in -1 .. MaxSlides} \cup {<<i, j>> : i, j \in -1 .. MaxSlides}

SeqSet(s) == {s[k] : k \in 1 .. Len(s)}

InitTrack ==
  /\ InitSlider
  /\ thumb = NoThumb
  /\ clock = RefreshChildren([k \in 1 .. slideCount |-> Slide(NoIndexAttr)],
                             state.loopModeActive, cloneSets)

TrackAdd ==
  /\ ~drag.open
  /\ \E count \in 1 .. MaxSlides, given \in BOOLEAN, index \in -1 .. MaxSlides + 1 :
       /\ slideCount + count <= MaxSlides
       /\ InstallTrack(Add(World, count, config.slidesPerView2), "add", count)
       /\ \E W \in {Add(World, count, config.slidesPerView2)} :
            clock' = ChildrenAfter(World, W, clock,
                       AddChildren(TornDown(World, clock), count, given, index))

TrackRemove ==
  /\ ~drag.open
  /\ \E indices \in RemoveArgs :
       /\ InstallTrack(Remove(World, SeqSet(indices), config.slidesPerView2),
                       "remove", Len(indices))
       /\ \E W \in {Remove(World, SeqSet(indices), config.slidesPerView2)} :
            clock' = ChildrenAfter(World, W, clock,
                       RemoveChildren(TornDown(World, clock), indices))

TrackRefresh ==
  /\ ~drag.open
  /\ \E css \in SpvSet :
       /\ InstallTrack(Refresh(World, css), "refresh", 0)
       /\ \E W \in {Refresh(World, css)} :
            clock' = ChildrenAfter(World, W, clock, TornDown(World, clock))

TrackGoTo ==
  /\ ~drag.open
  /\ \E i \in 0 .. MaxSlides - 1 : InstallTrack(GoTo(World, i), "goTo", i)
  /\ UNCHANGED clock

TrackSettle ==
  /\ scrollEndTimer
  /\ InstallTrack(OnScrollSettle(World), "scrollSettle", 0)
  /\ UNCHANGED clock

TrackDestroy ==
  /\ ~state.isDestroyed
  /\ InstallTrack(Destroy(World), "destroy", 0)
  /\ clock' = RealChildren(clock)

NextTrack ==
  TrackAdd \/ TrackRemove \/ TrackRefresh \/ TrackGoTo \/ TrackSettle \/ TrackDestroy

SpecTrack == InitTrack /\ [][NextTrack]_vars

---------------------------------------------------------------------------
(* The resize monitor (mediaQueryMonitor.ts) of a slider: clock holds the    *)
(* closure of monitorCssVariables, the value getState() would read now, and  *)
(* what the last step did                                                    *)

RESIZE_DEBOUNCE_MS == 100

RESIZE_MAX_WAIT_MS == 250

\* the time that passes in one step of the monitor's clock
ResizeTickMs == 50

\* monitorCssVariables(container, LAYOUT_VARS, onChange, options) with the
\* stylesheet giving css: sinceFirst is Date.now() - firstResizeTime, sinceLast
\* the time since the last resize event; flushed tells whether the last step
\* ran flush(), notified whether it called onChange, atFlush what getState()
\* gave at the last flush or at creation
MonitorCssVariables(css) ==
  [listening |-> TRUE, lastKnownValue |-> css, debounceTimer |-> NoTimer,
   sinceFirst |-> NoTimer, css |-> css,
   sinceLast |-> NoTimer, atFlush |-> css, step |-> "create",
   flushed |-> FALSE, notified |-> FALSE]

Stepped(m, step) == [m EXCEPT !.step = step, !.flushed = FALSE, !.notified = FALSE]

Flush(m) ==
  [m EXCEPT !.debounceTimer = NoTimer, !.sinceFirst = NoTimer,
            !.lastKnownValue = m.css, !.notified = (m.css # m.lastKnownValue),
            !.flushed = TRUE, !.atFlush = m.css, !.sinceLast = NoTimer]

OnResize(m) ==
  LET elapsed == IF m.sinceFirst = NoTimer THEN 0 ELSE m.sinceFirst
      shouldForce == elapsed >= RESIZE_MAX_WAIT_MS
  IN IF shouldForce THEN Flush(m)
     ELSE [m EXCEPT !.sinceFirst = elapsed, !.debounceTimer = RESIZE_DEBOUNCE_MS,
                    !.sinceLast = 0]

\* the teardown function monitorCssVariables returns
TeardownListenerOnly(m) == [m EXCEPT !.listening = FALSE]

TeardownMonitor(m) == [m EXCEPT !.listening = FALSE, !.debounceTimer = NoTimer]

\* the onChange of setupResizeMonitor
OnLayoutChange(W, css) ==
  IF W.state.isDestroyed THEN W
  ELSE LET W1 == Update(Emit(W, "resize", W.state.currentIndex), EmptyConfig, css)
       IN Emit(W1, "resized", W1.state.currentIndex)

\* a step of the monitor that left it as m: the slider runs onChange when the
\* step called it
InstallMonitor(m) ==
  /\ clock' = m
  /\ IF m.notified
       THEN Install(OnLayoutChange(World, m.css), "resize", 0)
     ELSE /\ last' = [last EXCEPT !.op = m.step, !.events = <<>>, !.cmds = <<>>]
          /\ UNCHANGED <<host, slideCount, config, state, cloneSets, clones,
                         teleportTimer, scrollEndTimer, dragListeners,
                         keyboardListeners, scrollPos, drag>>
  /\ UNCHANGED thumb

InitResize ==
  /\ InitSlider
  /\ thumb = NoThumb
  /\ clock = MonitorCssVariables(config.slidesPerView2)

\* the viewport crosses a media query: --slides-per-view changes
MediaChange ==
  /\ \E css \in SpvSet \ {clock.css} :
       InstallMonitor([Stepped(clock, "media") EXCEPT !.css = css])

\* the window dispatches resize to the listener
ResizeEvent ==
  /\ clock.listening
  /\ InstallMonitor(OnResize(Stepped(clock, "resizeEvent")))

\* ResizeTickMs pass; a timeout that is due runs first
ResizeTick ==
  /\ clock.sinceFirst # NoTimer
  /\ clock.debounceTimer # 0
  /\ InstallMonitor(
       [Stepped(clock, "tick") EXCEPT
          !.debounceTimer = IF @ = NoTimer THEN @ ELSE @ - ResizeTickMs,
          !.sinceFirst = Min(@ + ResizeTickMs, RESIZE_MAX_WAIT_MS + ResizeTickMs),
          !.sinceLast = IF @ = NoTimer THEN @
                        ELSE Min(@ + ResizeTickMs, RESIZE_MAX_WAIT_MS + ResizeTickMs)])

\* the debounce timeout fires
ResizeDebounceFires ==
  /\ clock.debounceTimer = 0
  /\ InstallMonitor(Flush(Stepped(clock, "timeout")))

\* destroy() calls the teardown of the monitor
ResizeDestroy ==
  /\ ~state.isDestroyed
  /\ Install(Destroy(World), "destroy", 0)
  /\ clock' = TeardownMonitor(Stepped(clock, "teardown"))
  /\ UNCHANGED thumb

NextResize ==
  MediaChange \/ ResizeEvent \/ ResizeTick \/ ResizeDebounceFires \/ ResizeDestroy

SpecResize == InitResize /\ [][NextResize]_vars

\* C33: onChange is called only at a flush at which the monitored values differ
\* from those read at the previous flush (or at creation); a flush happens
\* when the debounce time has passed since the last resize event of a burst,
\* or at once on a resize event that arrives the maximal wait or more after
\* the first event of the burst; after teardown onChange is never called.
C33_ResizeMonitor ==
  /\ [][clock'.notified => (clock'.flushed /\ clock.css # clock.atFlush)]_vars
  /\ [][clock'.flushed
          => \/ clock'.step = "timeout" /\ clock.sinceLast = RESIZE_DEBOUNCE_MS
             \/ clock'.step = "resizeEvent" /\ clock.sinceFirst >= RESIZE_MAX_WAIT_MS]_vars
  /\ [][(clock'.step = "resizeEvent" /\ clock.sinceFirst >= RESIZE_MAX_WAIT_MS)
          => clock'.flushed]_vars
  /\ [](clock.listening => clock.sinceLast <= RESIZE_DEBOUNCE_MS)
  /\ [][~clock.listening => ~clock'.notified]_vars

\* a burst of resize events went on for the maximal wait, the event that then
\* arrived flushed at once, and the slider was updated to the new layout
C33_Witness ==
  /\ clock.step = "resizeEvent"
  /\ clock.flushed
  /\ clock.notified
  /\ last.op = "resize"
  /\ config.slidesPerView2 = clock.css

---------------------------------------------------------------------------
(* Loop mode against the loop setting *)

\* C34: after construction and after each update(), refresh(), add() and
\* remove() on a live instance, loop mode is active exactly when config.loop
\* is set and maxIndex is above 0, also when update() changes only the
\* slides per view and maxIndex crosses 0; normalizeIndex, which tests the
\* configuration, and goTo, which tests loopModeActive, then agree.
C34_LoopModeFollowsConfig ==
  (last.op \in {"createSlider", "update", "refresh", "add", "remove"}
     /\ ~state.isDestroyed)
    => (state.loopModeActive <=> IsLoopEnabled(World))

\* update() that left the loop setting alone raised maxIndex above 0 on a
\* slider configured to loop: loop mode stays off
C34_Witness ==
  /\ last.op = "update"
  /\ last.arg = 0
  /\ ~state.isDestroyed
  /\ slideCount > 0
  /\ config.loop
  /\ GetMaxIndex(World) > 0
  /\ ~state.loopModeActive
  /\ clones = NoClones

---------------------------------------------------------------------------
(* The current index against the slideChange events *)

\* the handler that just ran emitted slideChange with index
EmittedChange(index) ==
  \E k \in 1 .. Len(last.events) :
    last.events[k].type = "slideChange" /\ last.events[k].index = index

\* C35: whenever the value of the currentIndex getter changes on a live
\* instance, the handler that changed it emits slideChange with the new
\* index: goTo, next, prev, scroll sync, drag release, and the clamping of
\* the index in update, refresh, add, remove and loop setup and teardown.
C35_IndexChangeAnnounced ==
  [][(state'.currentIndex # state.currentIndex /\ ~state'.isDestroyed)
       => \E k \in 1 .. Len(last'.events) :
            /\ last'.events[k].type = "slideChange"
            /\ last'.events[k].index = state'.currentIndex]_vars

\* remove() took slides off the end of a track that does not loop and the
\* index was clamped to the new maxIndex with no slideChange
C35_Witness ==
  /\ last.op = "remove"
  /\ ~state.isDestroyed
  /\ ~config.loop
  /\ slideCount > 0
  /\ state.currentIndex = GetMaxIndex(World)
  /\ last.prevIndex > state.currentIndex
  /\ ~EmittedChange(state.currentIndex)

---------------------------------------------------------------------------
(* The programmatic-scroll flag *)

\* C36: after goTo or a drag release in loop mode has set isProgrammaticScroll
\* the flag returns to false without the user doing anything more, also when
\* the commanded position is the current one: the pending timers fire, and
\* once none is left and no drag is open the flag is down.
C36_ProgrammaticFlagClears ==
  (Quiescent /\ ~state.isDestroyed) => ~state.isProgrammaticScroll

\* goTo commanded the position the track is at: no scroll event follows, no
\* timer runs, and the flag is up
C36_Witness ==
  /\ last.op = "goTo"
  /\ last.cmds # <<>>
  /\ last.travel = 0
  /\ Quiescent
  /\ ~state.isDestroyed
  /\ ~state.loopModeActive
  /\ state.isProgrammaticScroll

---------------------------------------------------------------------------
(* Drag sessions with more than one pointer: every pointer-down the          *)
(* controller accepts makes a closure of its own (startScroll,               *)
(* pendingScroll, moveRafId) and registers its pointermove, pointerup and    *)
(* pointercancel listeners on the track; clock holds the closures whose      *)
(* listeners are registered, oldest first.  The pointer events of the track  *)
(* go to every registered listener, whichever pointer they come from.        *)

\* the closures registered at most
MaxSessions == 2

\* the closure registered last, which the drag variable shows
Latest(sessions) == IF sessions = <<>> THEN NoDrag ELSE sessions[Len(sessions)]

\* onPointerDown: nothing in it looks at state.isDragging
DragDown(W, sessions) ==
  LET W1 == OnPointerDown(W) IN [W |-> W1, sessions |-> Append(sessions, W1.drag)]

\* a pointermove reaches the onPointerMove of every closure; deltas[k] is
\* (startCoord - coord) * sign as the k-th closure computes it (the pointers
\* of the model went down at the same coordinate)
RECURSIVE MoveAll(_, _, _, _)
MoveAll(W, sessions, deltas, k) ==
  IF k > Len(sessions) THEN [W |-> W, sessions |-> sessions]
  ELSE LET W1 == OnPointerMove([W EXCEPT !.drag = sessions[k]], deltas[k])
       IN MoveAll(W1, [sessions EXCEPT ![k] = W1.drag], deltas, k + 1)

\* the animation frame runs the flushDragScroll of every closure that asked
RECURSIVE FlushAll(_, _, _)
FlushAll(W, sessions, k) ==
  IF k > Len(sessions) THEN [W |-> W, sessions |-> sessions]
  ELSE IF ~sessions[k].moveRaf THEN FlushAll(W, sessions, k + 1)
  ELSE LET W1 == FlushDragScroll([W EXCEPT !.drag = sessions[k]])
       IN FlushAll(W1, [sessions EXCEPT ![k] = W1.drag], k + 1)

\* a pointerup or pointercancel reaches the onPointerUp of every closure: the
\* first finds isDragging set, ends the session and removes its listeners,
\* the others return at their first statement
RECURSIVE UpAll(_, _, _, _)
UpAll(W, sessions, momentum, k) ==
  IF k > Len(sessions) THEN [W |-> W, sessions |-> sessions]
  ELSE LET W1 == OnPointerUp([W EXCEPT !.drag = sessions[k]], momentum)
       IN UpAll(W1, [sessions EXCEPT ![k] = W1.drag], momentum, k + 1)

IsOpen(closure) == closure.open

\* the handlers left the instance and the closures as R
InstallDrag(R, op, arg) ==
  /\ \E open \in {SelectSeq(R.sessions, IsOpen)} :
       /\ Install([R.W EXCEPT !.drag = Latest(open)], op, arg)
       /\ clock' = open
  /\ UNCHANGED thumb

\* sliders of up to MaxDragSlides slides, one per view
MaxDragSlides == 2

InitDrag == InitWith(Layouts, MaxDragSlides, {0}, {2}) /\ thumb = NoThumb /\ clock = <<>>

DragPointerDown ==
  /\ dragListeners
  /\ Len(clock) < MaxSessions
  /\ InstallDrag(DragDown(World, clock), "pointerDown", 0)

DragPointerMove ==
  /\ clock # <<>>
  /\ \E d \in DragDeltas :
       InstallDrag(MoveAll(World, clock, [k \in 1 .. Len(clock) |-> d], 1),
                   "pointerMove", 0)

DragAnimationFrame ==
  /\ \E k \in 1 .. Len(clock) : clock[k].moveRaf
  /\ InstallDrag(FlushAll(World, clock, 1), "dragFrame", 0)

\* the pointer is released at rest: no momentum
DragPointerUp ==
  /\ clock # <<>>
  /\ InstallDrag(UpAll(World, clock, 0, 1), "pointerUp", 0)

DragScrollSettle ==
  /\ scrollEndTimer
  /\ InstallDrag([W |-> OnScrollSettle(World), sessions |-> clock], "scrollSettle", 0)

DragTeleport ==
  /\ teleportTimer
  /\ InstallDrag([W |-> TeleportIfNeeded([World EXCEPT !.teleportTimer = FALSE]),
                  sessions |-> clock], "teleport", 0)

NextDrag ==
  \/ DragPointerDown \/ DragPointerMove \/ DragAnimationFrame \/ DragPointerUp
  \/ DragScrollSettle \/ DragTeleport

SpecDrag == InitDrag /\ [][NextDrag]_vars

\* the handler that just ran emitted an event of this type
Emitted(type) == \E k \in 1 .. Len(last.events) : last.events[k].type = type

\* C37: drag sessions never overlap: dragStart and dragEnd alternate, a
\* pointer-down while isDragging (a second pointer) starts no second session,
\* and when a session ends all of its pointermove, pointerup and pointercancel
\* listeners are removed.
C37_OneDragSession ==
  /\ [][(state.isDragging /\ last'.op = "pointerDown")
          => \A k \in 1 .. Len(last'.events) : last'.events[k].type # "dragStart"]_vars
  /\ [][(~state.isDragging /\ last'.op = "pointerUp")
          => \A k \in 1 .. Len(last'.events) : last'.events[k].type # "dragEnd"]_vars
  /\ [](Len(clock) <= 1)
  /\ [](~state.isDragging => clock = <<>>)

\* a second pointer went down during a drag and dragStart was emitted again;
\* the pointer-up that followed ended one session and the listeners of the
\* other closure are still on the track
C37_Witness ==
  /\ last.op = "pointerUp"
  /\ Emitted("dragEnd")
  /\ ~state.isDragging
  /\ Len(clock) = 1

---------------------------------------------------------------------------
(* The scroll position during a drag *)

\* C38: while isDragging no teleport relocates the scroll position: every
\* position written during a drag of a live instance is the position at the
\* pointer-down plus the signed pointer delta.
C38_DragOwnsScroll ==
  [][(state.isDragging /\ state'.isDragging /\ ~state'.isDestroyed)
       => \A k \in 1 .. Len(last'.cmds) :
            \E d \in DragDeltas : last'.cmds[k] = drag.startScroll + d]_vars

\* the teleport timer fired during a drag that had pulled the track out of
\* the real slides, and moved the track by a section
C38_Witness ==
  /\ last.op = "teleport"
  /\ state.isDragging
  /\ drag.open
  /\ state.loopModeActive
  /\ last.cmds # <<>>
  /\ \A d \in DragDeltas : scrollPos # drag.startScroll + d

---------------------------------------------------------------------------
(* The navigation arrows (createNavigation) of a container that holds both   *)
(* buttons: clock holds config.direction and the closure of the navigation   *)
(* controller, the handler registered on each button and its disabled flag.  *)
(* navigation.refresh() runs in the places where updateVisibility() runs     *)
(* (syncIndex, goTo, update, refresh through build, construction) and in     *)
(* the loop release of a drag, where both buttons are enabled before and     *)
(* after.                                                                    *)

Directions == {"ltr", "rtl"}

\* navigation.refresh()
NavRefresh(W, nav) ==
  LET maxIndex == GetMaxIndex(W)
      hasMultiplePages == maxIndex > 0
      isRtl == nav.direction = "rtl"
      prevDisabled == ~hasMultiplePages \/ (~IsLoopEnabled(W) /\ W.state.currentIndex = 0)
      nextDisabled == ~hasMultiplePages
                        \/ (~IsLoopEnabled(W) /\ W.state.currentIndex >= maxIndex)
  IN [nav EXCEPT !.prevDisabled = IF isRtl THEN nextDisabled ELSE prevDisabled,
                 !.nextDisabled = IF isRtl THEN prevDisabled ELSE nextDisabled]

\* navigation.build()
NavBuild(W, nav) ==
  LET isRtl == nav.direction = "rtl" IN
  NavRefresh(W, [nav EXCEPT !.prevHandler = IF isRtl THEN "next" ELSE "prev",
                            !.nextHandler = IF isRtl THEN "prev" ELSE "next"])

\* the click listener of a button
ClickHandler(W, handler) == IF handler = "prev" THEN PrevSlide(W) ELSE NextSlide(W)

\* a handler that called navigation.refresh() left the instance as W
InstallNav(V, nav, op, arg) ==
  /\ Install(V, op, arg)
  /\ \E W \in {DispatchScroll(V)} : clock' = IF W.shown THEN NavRefresh(W, nav) ELSE nav
  /\ UNCHANGED thumb

InitArrows ==
  /\ InitSlider
  /\ thumb = NoThumb
  /\ \E d \in Directions :
       clock = NavBuild(World, [direction |-> d, prevHandler |-> "prev",
                                nextHandler |-> "next", prevDisabled |-> FALSE,
                                nextDisabled |-> FALSE])

\* the user clicks a button that is not disabled
ClickPrevButton ==
  /\ ~state.isDestroyed
  /\ ~clock.prevDisabled
  /\ InstallNav(ClickHandler(World, clock.prevHandler), clock, "clickPrev", 0)

ClickNextButton ==
  /\ ~state.isDestroyed
  /\ ~clock.nextDisabled
  /\ InstallNav(ClickHandler(World, clock.nextHandler), clock, "clickNext", 0)

ArrowsGoTo ==
  /\ ~state.isDestroyed
  /\ \E i \in 0 .. MaxSlides - 1 : InstallNav(GoTo(World, i), clock, "goTo", i)

\* update({ direction: d }) and update() after a change of the stylesheet
ArrowsUpdate ==
  /\ ~drag.open
  /\ \E d \in Directions, css \in SpvSet :
       InstallNav(Update(World, EmptyConfig, css), [clock EXCEPT !.direction = d],
                  "update", 0)

\* refresh() rebuilds the navigation unless no slide is left
ArrowsRefresh ==
  /\ Install(Refresh(World, config.slidesPerView2), "refresh", 0)
  /\ \E W \in {Refresh(World, config.slidesPerView2)} :
       clock' = IF W.shown THEN NavBuild(DispatchScroll(W), clock) ELSE clock
  /\ UNCHANGED thumb

ArrowsScroll ==
  /\ ~state.isDestroyed
  /\ \E p \in ScrollStops(World) :
       /\ p # scrollPos
       /\ InstallNav([World EXCEPT !.scrollPos = p, !.moved = TRUE], clock, "scroll", 0)

ArrowsScrollSettle ==
  /\ scrollEndTimer
  /\ InstallNav(OnScrollSettle(World), clock, "scrollSettle", 0)

ArrowsTeleport ==
  /\ teleportTimer
  /\ InstallNav(TeleportIfNeeded([World EXCEPT !.teleportTimer = FALSE]), clock,
                "teleport", 0)

NextArrows ==
  \/ ClickPrevButton \/ ClickNextButton \/ ArrowsGoTo \/ ArrowsUpdate
  \/ ArrowsRefresh \/ ArrowsScroll \/ ArrowsScrollSettle \/ ArrowsTeleport

SpecArrows == InitArrows /\ [][NextArrows]_vars

\* a click on the button with this handler would leave currentIndex as it is
ClickIsIdle(handler) ==
  ClickHandler(World, handler).state.currentIndex = state.currentIndex

\* C39: on a slider that does not loop and has more than one page, after
\* every build or refresh of the navigation a button is disabled exactly when
\* a click on it could not change currentIndex (the one that goes back at
\* index 0, the one that goes forward at maxIndex), in ltr and rtl alike,
\* also after update() has switched the direction.
C39_ArrowsMatchClicks ==
  (~state.isDestroyed /\ ~config.loop /\ GetMaxIndex(World) > 0)
    => /\ clock.prevDisabled <=> ClickIsIdle(clock.prevHandler)
       /\ clock.nextDisabled <=> ClickIsIdle(clock.nextHandler)

\* update({ direction: "rtl" }) on a slider built ltr, at index 0: the
\* previous button still goes back and is enabled, the next button still
\* goes forward and is disabled
C39_Witness ==
  /\ last.op = "update"
  /\ ~config.loop
  /\ GetMaxIndex(World) > 0
  /\ state.currentIndex = 0
  /\ clock.direction = "rtl"
  /\ clock.prevHandler = "prev"
  /\ ~clock.prevDisabled
  /\ clock.nextDisabled

---------------------------------------------------------------------------
(* Autoplay (createAutoplay): clock holds config.autoplay, the closure of    *)
(* the controller (the interval timer, hoverListenersActive, the touch       *)
(* resume timeout), the autoplay events the last handler emitted and the     *)
(* last autoplay event emitted before it ("" when there was none)            *)

AutoPause(a) ==
  IF a.timer THEN [a EXCEPT !.timer = FALSE, !.events = Append(@, "autoplayStop")]
  ELSE a

AutoStartNoPause(a) ==
  IF ~a.autoplay THEN a
  ELSE [a EXCEPT !.timer = TRUE, !.events = Append(@, "autoplayStart")]

AutoStart(a) ==
  IF ~a.autoplay THEN a
  ELSE [AutoPause(a) EXCEPT !.timer = TRUE, !.events = Append(@, "autoplayStart")]

\* the callback of the interval, with the instance it runs next() on
AutoTick(W, a) ==
  IF ~W.state.loopModeActive /\ W.state.currentIndex >= GetMaxIndex(W)
    THEN [W |-> W, a |-> AutoPause(a)]
  ELSE [W |-> NextSlide(W), a |-> a]

OnMouseEnter(a) == AutoPause(a)

OnMouseLeave(a) == IF a.autoplay THEN AutoStart(a) ELSE a

OnTouchStart(a) == AutoPause([a EXCEPT !.touchResumeTimer = FALSE])

OnTouchEnd(a) == IF a.autoplay THEN [a EXCEPT !.touchResumeTimer = TRUE] ELSE a

\* the timeout of onTouchEnd
OnTouchResume(a) ==
  LET a1 == [a EXCEPT !.touchResumeTimer = FALSE] IN
  IF a1.autoplay THEN AutoStart(a1) ELSE a1

SetHoverPause(a, enabled) ==
  IF enabled = a.hoverListenersActive THEN a
  ELSE IF enabled THEN [a EXCEPT !.hoverListenersActive = TRUE]
  ELSE [a EXCEPT !.touchResumeTimer = FALSE, !.hoverListenersActive = FALSE]

\* the autoplay statements of update(): autoplay is the new config.autoplay,
\* restart tells whether autoplay, autoplayInterval or loop changed
AutoUpdate(a, autoplay, restart) ==
  LET a1 == SetHoverPause([a EXCEPT !.autoplay = autoplay], autoplay) IN
  IF restart THEN IF a1.autoplay THEN AutoStart(a1) ELSE AutoPause(a1)
  ELSE a1

\* the last autoplay event emitted so far
LastAutoplayEvent(a) ==
  IF a.events = <<>> THEN a.before ELSE a.events[Len(a.events)]

\* the closure as a handler finds it
AtHandler(a) == [a EXCEPT !.before = LastAutoplayEvent(a), !.events = <<>>]

InstallAuto(V, a, op) ==
  /\ Install(V, op, 0)
  /\ clock' = a
  /\ UNCHANGED thumb

\* createSlider with config.autoplay either way
InitAuto ==
  /\ InitSlider
  /\ thumb = NoThumb
  /\ \E autoplay \in BOOLEAN :
       clock = AutoStart(SetHoverPause(
                 [autoplay |-> autoplay, timer |-> FALSE,
                  hoverListenersActive |-> FALSE, touchResumeTimer |-> FALSE,
                  events |-> <<>>, before |-> ""], autoplay))

AutoplayTick ==
  /\ clock.timer
  /\ \E R \in {AutoTick(World, AtHandler(clock))} : InstallAuto(R.W, R.a, "autoplayTick")

MouseEnter ==
  /\ clock.hoverListenersActive
  /\ InstallAuto(World, OnMouseEnter(AtHandler(clock)), "mouseenter")

MouseLeave ==
  /\ clock.hoverListenersActive
  /\ InstallAuto(World, OnMouseLeave(AtHandler(clock)), "mouseleave")

TouchStart ==
  /\ clock.hoverListenersActive
  /\ InstallAuto(World, OnTouchStart(AtHandler(clock)), "touchstart")

TouchEnd ==
  /\ clock.hoverListenersActive
  /\ InstallAuto(World, OnTouchEnd(AtHandler(clock)), "touchend")

TouchResume ==
  /\ clock.touchResumeTimer
  /\ InstallAuto(World, OnTouchResume(AtHandler(clock)), "touchResume")

\* onPointerDown ends with pauseAutoplay()
AutoPointerDown ==
  /\ dragListeners
  /\ ~drag.open
  /\ InstallAuto(OnPointerDown(World), AutoPause(AtHandler(clock)), "pointerDown")

\* onPointerUp ends with if (ctx.config.autoplay) startAutoplay()
AutoPointerUp ==
  /\ drag.open
  /\ InstallAuto(OnPointerUp(World, 0),
                 IF clock.autoplay THEN AutoStart(AtHandler(clock))
                 ELSE AtHandler(clock), "pointerUp")

\* update(nextConfig) with autoplay, autoplayInterval and loop given or not
AutoplayUpdate ==
  /\ ~drag.open
  /\ \E nc \in NextConfigs, autoplay \in BOOLEAN, interval \in BOOLEAN :
       InstallAuto(Update(World, nc, config.slidesPerView2),
                   AutoUpdate(AtHandler(clock), autoplay,
                              \/ autoplay # clock.autoplay
                              \/ interval
                              \/ MergeConfig(config, nc).loop # config.loop),
                   "update")

AutoScrollSettle ==
  /\ scrollEndTimer
  /\ InstallAuto(OnScrollSettle(World), AtHandler(clock), "scrollSettle")

AutoTeleport ==
  /\ teleportTimer
  /\ InstallAuto(TeleportIfNeeded([World EXCEPT !.teleportTimer = FALSE]),
                 AtHandler(clock), "teleport")

NextAuto ==
  \/ AutoplayTick \/ MouseEnter \/ MouseLeave \/ TouchStart \/ TouchEnd
  \/ TouchResume \/ AutoPointerDown \/ AutoPointerUp \/ AutoplayUpdate
  \/ AutoScrollSettle \/ AutoTeleport

SpecAuto == InitAuto /\ [][NextAuto]_vars

\* C40: autoplayStart and autoplayStop alternate, beginning with
\* autoplayStart, and the interval timer runs exactly from an autoplayStart to
\* the next autoplayStop, over start() and pause() as hover, touch, drag,
\* update() and the tick at the last index of a slider that does not loop
\* call them.
C40_AutoplayAlternates ==
  /\ \A k \in 1 .. Len(clock.events) :
       (clock.events[k] = "autoplayStart")
         <=> ((IF k = 1 THEN clock.before ELSE clock.events[k - 1])
                \in {"", "autoplayStop"})
  /\ clock.timer <=> (LastAutoplayEvent(clock) = "autoplayStart")

\* update() with another interval restarted a running autoplay: stop, then
\* start, after an earlier start
C40_Witness ==
  /\ last.op = "update"
  /\ clock.before = "autoplayStart"
  /\ clock.events = <<"autoplayStop", "autoplayStart">>
  /\ clock.timer

====
